---- MODULE Spec2Model ----
(***************************************************************************)
(* A model of the decision pipeline of the Stratus ATC client:             *)
(*   - FlightPhaseTracker        (client/src/core/flight_phase.py)         *)
(*   - validate_atc_response     (client/src/core/validation.py)           *)
(*   - StreamingLLM / StreamingATCController                               *)
(*                               (client/src/core/streaming_llm.py)        *)
(*   - SpeculativeCache          (client/src/core/response_cache.py)       *)
(*   - HandoffManager            (client/src/core/handoff.py)              *)
(*   - SquawkHandler             (client/src/core/squawk.py)               *)
(* Each component has its own specification (SpecPhase, SpecDetect,        *)
(* SpecValidate, SpecStream, SpecCache, SpecHandoff, SpecSquawk); a        *)
(* specification leaves the variables of the other components unchanged.   *)
(***************************************************************************)
EXTENDS Integers, Sequences, FiniteSets, TLC

VARIABLES
    clock,                  \* time.time(), in whole seconds
    \* ---- FlightPhaseTracker fields
    current_phase,          \* self._current_phase
    pending_phase,          \* self._pending_phase ("None" when absent)
    phase_start_time,       \* self._phase_start_time
    last_update_time,       \* self._last_update_time
    max_altitude_reached,   \* self._max_altitude_reached
    was_airborne,           \* self._was_airborne
    \* ---- what the last call on the tracker did (observation only)
    ph_call,                \* [op, detected, ret]: the call, what it detected and returned
    commit_ias,             \* telemetry.ias of the update that committed last, -1 if none
    pending_since,          \* the time the pending phase became pending
    last_commit_time,       \* time of the latest _transition_to, -1 if none
    prev_commit_time,       \* time of the one before it, -1 if none
    \* ---- _detect_phase applied to one snapshot (SpecDetect)
    det_in,                 \* the telemetry snapshot
    det_out,                \* the phase detected for it ("None" before the call)
    \* ---- validate_atc_response applied to one text (SpecValidate)
    val_in,                 \* the raw response
    val_out,                \* its ValidationResult (NoResult before the call)
    \* ---- StreamingLLM.generate_stream: the generator of the request in progress
    llm_pc,                 \* "idle" | "post" | "lines" | "suspended" | "closed"
    stop_event,             \* self._stop_event.is_set()
    buffer,                 \* the local buffer, a sequence of characters
    chunks,                 \* the StreamChunks yielded so far, in order
    lines_read,             \* network lines received by this request
    \* ---- StreamingATCController
    ctl_pc,                 \* "idle" | "streaming" | "finishing"
    processing,             \* self._processing
    full_response,          \* the local full_response of process_request
    ctl_ret,                \* what the last process_request returned ("None" before)
    completed,              \* the text given to on_complete ("None" before)
    spoken,                 \* the texts handed to speak_func by this request
    validated_chunks,       \* the texts validate_atc_response was applied to
    \* ---- SpeculativeCache fields
    cache,                  \* self._cache: the CachedResponses, in dict order
    stats,                  \* self._stats
    current_context_hash,   \* self._current_context_hash
    generation_queue,       \* self._generation_queue
    running,                \* self._running
    \* ---- the threads that use the cache
    worker,                 \* the generation thread: [pc, item, response]
    updater,                \* the caller of update_context: [pc, phase, airport, todo]
    \* ---- observation only
    stored_live,            \* intents stored since the live fingerprint was installed
    \* ---- HandoffManager fields
    current_facility,       \* self._current_facility (NoFacility when None)
    departure_airport,      \* self._departure_airport ("None" when None)
    arrival_airport,        \* self._arrival_airport ("None" when None)
    last_handoff_altitude,  \* self._last_handoff_altitude
    handoff_history,        \* self._handoff_history: (from-name, to-name) pairs
    ho_call,                \* the last call on the manager: [op, expected, ret]
    \* ---- _determine_expected_facility applied to one input (SpecExpected)
    exp_in,                 \* [phase, altitude, on_ground, departure]
    exp_out,                \* the facility expected for it (NoResult before the call)
    \* ---- SquawkHandler fields
    current_code,           \* self._current_code, a sequence of characters
    last_emergency,         \* self._last_emergency (NoInfo when None)
    assigned_code,          \* self._assigned_code (NoCode when None)
    sq_call,                \* the last call on the handler: [op, arg, info]
    assign_results,         \* what set_assigned_code returned: [accepted, rejected]
    \* ---- parse_squawk_from_atc applied to one message (SpecParse)
    parse_in,               \* the ATC message, a sequence of words
    parse_out,              \* [returned, code]: what it returned (NoResult before)
    \* ---- SpeculativeCache.fuzzy_match: the call in progress (SpecFuzzy)
    fuzzy,                  \* [pc, msg, lower, i, ret]: position in keywords_map, result
    \* ---- SpeculativeCache at the grain of its lock and its threads (SpecThreads)
    lock,                   \* self._lock: Unlocked or the thread that holds it
    threads,                \* the threads start() created: [pc, item, response] each
    generation_thread,      \* self._generation_thread: 0 for None, else the thread
    caller,                 \* the thread that calls start, stop, update_context, get
    \* ---- ModelWarmupService and AmbientChatterService
    services,               \* per service: _running, _paused, _stop_event, the worker's position
    \* ---- check_readback_required
    rb_in,                  \* atc_instruction
    rb_out,                 \* the list returned, once the call has returned
    \* ---- what the request in progress received (observation only)
    stream_obs              \* [received, malformed, done, stopped]

phaseVars == <<current_phase, pending_phase, phase_start_time, last_update_time,
               max_altitude_reached, was_airborne>>
phaseObs == <<ph_call, commit_ias, pending_since, last_commit_time, prev_commit_time>>
detVars == <<det_in, det_out>>

valVars == <<val_in, val_out>>
llmVars == <<llm_pc, stop_event, buffer, chunks, lines_read>>
ctlVars == <<ctl_pc, processing, full_response, ctl_ret, completed, spoken,
             validated_chunks>>
streamVars == <<llmVars, ctlVars>>
cacheVars == <<cache, stats, current_context_hash, generation_queue, running>>
cacheThreads == <<worker, updater>>
cacheObs == <<stored_live>>
cacheAll == <<cacheVars, cacheThreads, cacheObs>>

handoffVars == <<current_facility, departure_airport, arrival_airport,
                 last_handoff_altitude, handoff_history>>
handoffAll == <<handoffVars, ho_call>>
expVars == <<exp_in, exp_out>>
squawkVars == <<current_code, last_emergency, assigned_code>>
squawkAll == <<squawkVars, sq_call, assign_results>>
parseVars == <<parse_in, parse_out>>

fuzzyVars == <<fuzzy>>
threadVars == <<lock, threads, generation_thread, caller>>

serviceVars == <<services>>

readbackVars == <<rb_in, rb_out>>

streamObs == <<stream_obs>>

vars == <<clock, phaseVars, phaseObs, detVars, valVars, streamVars, cacheAll, handoffAll,
          expVars, squawkAll, parseVars,
    fuzzyVars, threadVars,
    serviceVars,
    readbackVars,
    streamObs>>

\* what the actions of one component leave alone
notPhase == <<detVars, valVars, streamVars, cacheAll, handoffAll, expVars, squawkAll, parseVars,
    fuzzyVars, threadVars,
    serviceVars,
    readbackVars,
    streamObs>>
notDetect == <<clock, current_phase, pending_phase, phase_start_time, last_update_time,
               max_altitude_reached, phaseObs, valVars, streamVars, cacheAll, handoffAll,
               expVars, squawkAll, parseVars,
    fuzzyVars, threadVars,
    serviceVars,
    readbackVars,
    streamObs>>
notValidate == <<clock, phaseVars, phaseObs, detVars, streamVars, cacheAll, handoffAll,
                 expVars, squawkAll, parseVars,
    fuzzyVars, threadVars,
    serviceVars,
    readbackVars,
    streamObs>>
notStream == <<clock, phaseVars, phaseObs, detVars, valVars, cacheAll, handoffAll,
               expVars, squawkAll, parseVars,
    fuzzyVars, threadVars,
    serviceVars,
    readbackVars>>
notCache == <<phaseVars, phaseObs, detVars, valVars, streamVars, handoffAll, expVars, squawkAll, parseVars,
    fuzzyVars, threadVars,
    serviceVars,
    readbackVars,
    streamObs>>
notHandoff == <<clock, phaseVars, phaseObs, detVars, valVars, streamVars, cacheAll,
                expVars, squawkAll, parseVars,
    fuzzyVars, threadVars,
    serviceVars,
    readbackVars,
    streamObs>>
notExpected == <<clock, phaseVars, phaseObs, detVars, valVars, streamVars, cacheAll,
                 handoffAll, squawkAll, parseVars,
    fuzzyVars, threadVars,
    serviceVars,
    readbackVars,
    streamObs>>
notSquawk == <<clock, phaseVars, phaseObs, detVars, valVars, streamVars, cacheAll,
               handoffAll, expVars, parseVars,
    fuzzyVars, threadVars,
    serviceVars,
    readbackVars,
    streamObs>>
notParse == <<clock, phaseVars, phaseObs, detVars, valVars, streamVars, cacheAll,
              handoffAll, expVars, squawkAll,
    fuzzyVars, threadVars,
    serviceVars,
    readbackVars,
    streamObs>>
notFuzzy == <<phaseVars, phaseObs, detVars, valVars, streamVars, handoffAll, expVars,
             squawkAll, parseVars, threadVars,
    serviceVars,
    readbackVars,
    streamObs>>
notThreads == <<clock, phaseVars, phaseObs, detVars, valVars, streamVars, cacheThreads,
               cacheObs, handoffAll, expVars, squawkAll, parseVars, fuzzyVars,
    serviceVars,
    readbackVars,
    streamObs>>
notServices == <<clock, phaseVars, phaseObs, detVars, valVars, streamVars, cacheAll,
                 handoffAll, expVars, squawkAll, parseVars, fuzzyVars, threadVars,
    readbackVars,
    streamObs>>
notReadback == <<clock, phaseVars, phaseObs, detVars, valVars, streamVars, cacheAll,
                 handoffAll, expVars, squawkAll, parseVars, fuzzyVars, threadVars,
                 serviceVars,
    streamObs>>

----------------------------------------------------------------------------
(* Bounds of the model *)

\* the clock stops advancing here
MaxTime == 7

----------------------------------------------------------------------------
(* FlightPhase and PhaseThresholds *)

FlightPhase == {"UNKNOWN", "PARKED", "TAXI_OUT", "TAKEOFF", "DEPARTURE", "CRUISE",
                "DESCENT", "APPROACH", "LANDING", "TAXI_IN"}

\* Optional[FlightPhase] = None
NoPhase == "None"

taxi_speed_max == 40
takeoff_speed_min == 50
climb_vs_threshold == 300
descent_vs_threshold == -300
pattern_altitude_agl == 2000
departure_altitude_msl == 10000
phase_confirm_time == 3

----------------------------------------------------------------------------
(* Telemetry snapshots *)

\* update(None)
NoTelemetry ==
    [present |-> FALSE, connected |-> FALSE, on_ground |-> TRUE, ias |-> 0,
     vertical_speed |-> 0, altitude_msl |-> 0, has_agl |-> FALSE, altitude_agl |-> 0]

Snapshot(conn, ground, ias, vs, msl, hasAgl, agl) ==
    [present |-> TRUE, connected |-> conn, on_ground |-> ground, ias |-> ias,
     vertical_speed |-> vs, altitude_msl |-> msl, has_agl |-> hasAgl,
     altitude_agl |-> agl]

\* the snapshots fed to the tracker: every detection class, on the ground and airborne
GroundTelemetry ==
    {Snapshot(TRUE, TRUE, i, 0, 1000, TRUE, 0) : i \in {0, 20, 45, 60}}

AirTelemetry ==
    {Snapshot(TRUE, FALSE, 90, v, m, TRUE, a) :
        v \in {-500, 0, 500}, m \in {1000, 12000}, a \in {500, 5000}}
    \cup {Snapshot(TRUE, FALSE, 90, v, m, FALSE, 0) : v \in {-500, 0}, m \in {1000, 12000}}

DisconnectedTelemetry ==
    {NoTelemetry, Snapshot(FALSE, TRUE, 0, 0, 0, TRUE, 0),
     Snapshot(FALSE, FALSE, 90, 500, 12000, TRUE, 5000)}

TrackerTelemetry == GroundTelemetry \cup AirTelemetry \cup DisconnectedTelemetry

\* getattr(telemetry, 'altitude_agl', alt_msl)
AltAgl(tel) == IF tel.has_agl THEN tel.altitude_agl ELSE tel.altitude_msl

----------------------------------------------------------------------------
(* FlightPhaseTracker._detect_phase *)

GroundPhaseShifted(ias, airborne) ==
    IF ias <= 10
    THEN (IF airborne THEN "TAXI_IN" ELSE "PARKED")
    ELSE IF ias <= taxi_speed_max
    THEN (IF airborne THEN "TAXI_IN" ELSE "TAXI_OUT")
    ELSE (IF airborne THEN "LANDING" ELSE "TAKEOFF")

GroundPhase(ias, airborne) ==
    IF ias < 10
    THEN (IF airborne THEN "TAXI_IN" ELSE "PARKED")
    ELSE IF ias < taxi_speed_max
    THEN (IF airborne THEN "TAXI_IN" ELSE "TAXI_OUT")
    ELSE (IF airborne THEN "LANDING" ELSE "TAKEOFF")

\* a mutant: level flight is not classified
AirPhaseUnknown(vs, alt_msl, alt_agl) ==
    IF vs > climb_vs_threshold
    THEN (IF alt_msl < departure_altitude_msl THEN "DEPARTURE" ELSE "CRUISE")
    ELSE IF vs < descent_vs_threshold
    THEN (IF alt_agl < pattern_altitude_agl THEN "APPROACH" ELSE "DESCENT")
    ELSE "UNKNOWN"

AirPhase(vs, alt_msl, alt_agl) ==
    IF vs > climb_vs_threshold
    THEN (IF alt_msl < departure_altitude_msl THEN "DEPARTURE" ELSE "CRUISE")
    ELSE IF vs < descent_vs_threshold
    THEN (IF alt_agl < pattern_altitude_agl THEN "APPROACH" ELSE "DESCENT")
    ELSE (IF alt_agl < pattern_altitude_agl THEN "APPROACH" ELSE "CRUISE")

\* a mutant: the ground phases are detected as before the flight
DetectPhaseFresh(tel, airborne) ==
    IF tel.on_ground
    THEN GroundPhase(tel.ias, FALSE)
    ELSE AirPhase(tel.vertical_speed, tel.altitude_msl, AltAgl(tel))

DetectPhase(tel, airborne) ==
    IF tel.on_ground
    THEN GroundPhase(tel.ias, airborne)
    ELSE AirPhase(tel.vertical_speed, tel.altitude_msl, AltAgl(tel))

----------------------------------------------------------------------------
(* FlightPhaseTracker.update *)

\* a mutant: a pending phase is confirmed as soon as it is detected again
ConfirmedAtOnce(elapsed) == elapsed >= 0

\* elapsed >= self._thresholds.phase_confirm_time
Confirmed(elapsed) == elapsed >= phase_confirm_time

\* a mutant: every detection of the pending phase restarts its timer
PendingStartRestarted(detected, pending, start, t) == t

\* self._phase_start_time after the hysteresis branch that does not commit
PendingStart(detected, pending, start, t) ==
    IF detected = pending THEN start ELSE t

\* the tracker's fields after update(tel) at time t, for connected telemetry
UpdateConnected(tel, t) ==
    LET detected == DetectPhase(tel, was_airborne)
        maxAlt == IF tel.altitude_msl > max_altitude_reached
                  THEN tel.altitude_msl ELSE max_altitude_reached
        airborne == IF ~tel.on_ground THEN TRUE ELSE was_airborne
        commit == /\ detected # current_phase
                  /\ detected = pending_phase
                  /\ Confirmed(t - phase_start_time)
    IN  [detected |-> detected,
         commit |-> commit,
         current |-> IF commit THEN detected ELSE current_phase,
         pending |-> IF detected = current_phase \/ commit THEN NoPhase ELSE detected,
         start |-> IF detected = current_phase \/ commit
                   THEN phase_start_time
                   ELSE PendingStart(detected, pending_phase, phase_start_time, t),
         maxAlt |-> IF commit /\ detected = "PARKED" THEN 0 ELSE maxAlt,
         airborne |-> IF commit /\ detected = "PARKED" THEN FALSE ELSE airborne]

Update(tel) ==
    /\ IF ~tel.present \/ ~tel.connected
       THEN /\ ph_call' = [op |-> "update", detected |-> NoPhase, ret |-> "UNKNOWN"]
            /\ UNCHANGED <<phaseVars, commit_ias, pending_since, last_commit_time,
                           prev_commit_time>>
       ELSE LET r == UpdateConnected(tel, clock)
            IN  /\ current_phase' = r.current
                /\ pending_phase' = r.pending
                /\ phase_start_time' = r.start
                /\ max_altitude_reached' = r.maxAlt
                /\ was_airborne' = r.airborne
                /\ last_update_time' = clock
                /\ ph_call' = [op |-> "update", detected |-> r.detected,
                               ret |-> r.current]
                /\ commit_ias' = IF r.commit THEN tel.ias ELSE commit_ias
                /\ pending_since' = IF r.pending # pending_phase THEN clock
                                    ELSE pending_since
                /\ last_commit_time' = IF r.commit THEN clock ELSE last_commit_time
                /\ prev_commit_time' = IF r.commit THEN last_commit_time
                                       ELSE prev_commit_time
    /\ UNCHANGED <<clock, notPhase>>

\* FlightPhaseTracker.reset
Reset ==
    /\ current_phase' = "UNKNOWN"
    /\ pending_phase' = NoPhase
    /\ max_altitude_reached' = 0
    /\ was_airborne' = FALSE
    /\ ph_call' = [op |-> "reset", detected |-> NoPhase, ret |-> NoPhase]
    /\ pending_since' = IF pending_phase # NoPhase THEN clock ELSE pending_since
    /\ UNCHANGED <<clock, phase_start_time, last_update_time, commit_ias,
                   last_commit_time, prev_commit_time, notPhase>>

\* the wall clock advances between calls
Tick ==
    /\ clock < MaxTime
    /\ clock' = clock + 1
    /\ UNCHANGED <<phaseVars, phaseObs, notPhase>>

\* FlightPhaseTracker.__init__
InitPhase ==
    /\ current_phase = "UNKNOWN"
    /\ pending_phase = NoPhase
    /\ phase_start_time = 0
    /\ last_update_time = 0
    /\ max_altitude_reached = 0
    /\ was_airborne = FALSE
    /\ ph_call = [op |-> "init", detected |-> NoPhase, ret |-> NoPhase]
    /\ commit_ias = -1
    /\ pending_since = 0
    /\ last_commit_time = -1
    /\ prev_commit_time = -1

\* validate_atc_response has not returned
NoResult == [returned |-> FALSE]

\* no snapshot is under detection
InitDetectIdle ==
    /\ det_in = NoTelemetry
    /\ det_out = NoPhase

\* no text is under validation
InitValidateIdle ==
    /\ val_in = [quote |-> "", atoms |-> <<>>]
    /\ val_out = NoResult

\* the empty string, the first value of _current_context_hash
NoHash == <<>>

\* no queue item, no response, no entry
NoItem == [intent_key |-> "None"]
NoResponse == [reply_to |-> "None"]
NoEntry == [intent_key |-> "None"]

\* SpeculativeCache.__init__
InitCache ==
    /\ cache = <<>>
    /\ stats = [hits |-> 0, misses |-> 0, generations |-> 0, invalidations |-> 0]
    /\ current_context_hash = NoHash
    /\ generation_queue = <<>>
    /\ running = FALSE
    /\ worker = [pc |-> "none", item |-> NoItem, response |-> NoResponse]
    /\ updater = [pc |-> "idle", phase |-> "None", airport |-> "None", todo |-> <<>>]
    /\ stored_live = {}

\* Optional[Facility] = None, and a call that returned None
NoFacility == [type |-> "None"]
NoPhraseology == <<"None">>

\* HandoffManager.__init__
InitHandoff ==
    /\ current_facility = NoFacility
    /\ departure_airport = "None"
    /\ arrival_airport = "None"
    /\ last_handoff_altitude = 0
    /\ handoff_history = <<>>
    /\ ho_call = [op |-> "init", expected |-> NoFacility, ret |-> NoPhraseology]

\* _determine_expected_facility not called
InitExpectedIdle ==
    /\ exp_in = [phase |-> <<>>, altitude |-> 0, on_ground |-> TRUE, departure |-> "None"]
    /\ exp_out = NoResult

\* Optional[SquawkInfo] = None, Optional[str] = None
NoInfo == [code |-> <<"None">>]
NoCode == <<"None">>

\* SquawkHandler.__init__
InitSquawk ==
    /\ current_code = <<"1", "2", "0", "0">>
    /\ last_emergency = NoInfo
    /\ assigned_code = NoCode
    /\ sq_call = [op |-> "init", arg |-> <<>>, info |-> NoInfo]
    /\ assign_results = [accepted |-> {}, rejected |-> {}]

\* parse_squawk_from_atc not called
InitParseIdle ==
    /\ parse_in = <<>>
    /\ parse_out = NoResult

\* fuzzy_match returned None
NoMatch == [intent_key |-> "None"]

\* fuzzy_match not called
InitFuzzyIdle ==
    fuzzy = [pc |-> "idle", msg |-> <<>>, lower |-> <<>>, i |-> 0, ret |-> NoMatch]

\* the threads start() can create in the model
MaxThreads == 2

\* threading.Lock() not held, and the calling thread as a holder of it
Unlocked == -1
Caller == 0

\* no thread started, the lock free, the caller between calls
InitThreadsIdle ==
    /\ lock = Unlocked
    /\ threads = [t \in 1..MaxThreads |->
                     [pc |-> "unborn", item |-> NoItem, response |-> NoResponse]]
    /\ generation_thread = 0
    /\ caller = [pc |-> "idle", phase |-> "None", airport |-> "None", todo |-> <<>>,
                 key |-> "None"]

\* the two periodic services
Services == {"warmup", "chatter"}

\* ModelWarmupService.__init__ and AmbientChatterService.__init__: not running, not
\* paused, no thread; last is the outcome of the worker's latest check of _paused
InitServices ==
    services = [s \in Services |->
                   [running |-> FALSE, paused |-> FALSE, stop_event |-> FALSE,
                    pc |-> "unborn", left |-> 0, count |-> 0, last |-> "none"]]

\* no call of check_readback_required is under way
NoReadback == [returned |-> FALSE]

InitReadbackIdle ==
    /\ rb_in = <<>>
    /\ rb_out = NoReadback

\* nothing received, no stop() called
InitStreamObs ==
    stream_obs = [received |-> <<>>, malformed |-> FALSE, done |-> FALSE, stopped |-> FALSE]

\* StreamingLLM.__init__ and StreamingATCController.__init__
InitStream ==
    /\ llm_pc = "idle"
    /\ stop_event = FALSE
    /\ buffer = <<>>
    /\ chunks = <<>>
    /\ lines_read = 0
    /\ ctl_pc = "idle"
    /\ processing = FALSE
    /\ full_response = <<>>
    /\ ctl_ret = "None"
    /\ completed = "None"
    /\ spoken = <<>>
    /\ validated_chunks = {}

NextPhase ==
    \/ \E tel \in TrackerTelemetry : Update(tel)
    \/ Reset
    \/ Tick

InitPhaseSpec ==
    /\ clock = 0
    /\ InitPhase
    /\ InitDetectIdle
    /\ InitValidateIdle
    /\ InitStream
    /\ InitCache
    /\ InitHandoff
    /\ InitExpectedIdle
    /\ InitSquawk
    /\ InitParseIdle
    /\ InitFuzzyIdle
    /\ InitThreadsIdle
    /\ InitServices
    /\ InitReadbackIdle
    /\ InitStreamObs

SpecPhase == InitPhaseSpec /\ [][NextPhase]_vars

----------------------------------------------------------------------------
(* _detect_phase as a function of one snapshot and the was-airborne flag *)

\* connected snapshots on and around every threshold of PhaseThresholds
DetectTelemetry ==
    {Snapshot(TRUE, g, i, v, m, h, a) :
        g \in BOOLEAN, i \in {0, 9, 10, 39, 40, 60}, v \in {-301, -300, 0, 300, 301},
        m \in {1999, 9999, 10000}, h \in BOOLEAN, a \in {1999, 2000}}

Detect ==
    /\ det_out = NoPhase
    /\ det_out' = DetectPhase(det_in, was_airborne)
    /\ UNCHANGED <<det_in, was_airborne, notDetect>>

InitDetectSpec ==
    /\ clock = 0
    /\ InitPhase
    /\ det_in \in DetectTelemetry
    /\ det_out = NoPhase
    /\ InitValidateIdle
    /\ InitStream
    /\ InitCache
    /\ InitHandoff
    /\ InitExpectedIdle
    /\ InitSquawk
    /\ InitParseIdle
    /\ InitFuzzyIdle
    /\ InitThreadsIdle
    /\ InitServices
    /\ InitReadbackIdle
    /\ InitStreamObs

\* the tracker has or has not been airborne when the snapshot arrives
SetAirborne ==
    /\ det_out = NoPhase
    /\ ~was_airborne
    /\ was_airborne' = TRUE
    /\ UNCHANGED <<detVars, notDetect>>

NextDetect == Detect \/ SetAirborne

SpecDetect == InitDetectSpec /\ [][NextDetect]_vars

----------------------------------------------------------------------------
(* Claims about FlightPhaseTracker *)

\* C6: any two successive commits of the current phase are at least
\* phase_confirm_time apart: the committed phase never changes twice within one
\* confirmation window.
C6_AntiFlicker ==
    prev_commit_time # -1 => last_commit_time - prev_commit_time >= phase_confirm_time

\* two commits exactly one confirmation window apart
C6_Witness ==
    /\ prev_commit_time # -1
    /\ last_commit_time - prev_commit_time = phase_confirm_time

\* a step of update that commits a phase
CommitStep == current_phase' # current_phase /\ current_phase' # "UNKNOWN"

\* C7: a phase is committed only by an update that detects it while it is the
\* pending phase and phase_confirm_time has elapsed since it became pending;
\* detecting the pending phase again does not restart its timer; an update that
\* detects another phase discards the candidate, whose window then starts again
\* at the time it is next detected; a commit clears the pending phase.
C7_Hysteresis ==
    /\ [](pending_phase # NoPhase =>
            /\ pending_phase # current_phase
            /\ ph_call.detected \in {pending_phase, NoPhase})
    /\ [][/\ CommitStep =>
                /\ pending_phase = current_phase'
                /\ ph_call'.detected = current_phase'
                /\ clock - pending_since >= phase_confirm_time
                /\ pending_phase' = NoPhase
          /\ (pending_phase # NoPhase /\ pending_phase' = pending_phase) =>
                phase_start_time' = phase_start_time
          /\ (pending_phase' # NoPhase /\ pending_phase' # pending_phase) =>
                /\ phase_start_time' = clock
                /\ ph_call'.detected = pending_phase'
                /\ current_phase' = current_phase]_vars

\* a phase was committed after its candidate had been discarded once: it was
\* pending for exactly one window, later than the start of the flight
C7_Witness ==
    /\ last_commit_time = clock
    /\ ph_call.op = "update"
    /\ ph_call.detected = current_phase
    /\ pending_phase = NoPhase
    /\ clock - phase_start_time = phase_confirm_time
    /\ phase_start_time > 0
    /\ prev_commit_time = -1

\* C8: a commit of Parked -> Takeoff has was_airborne false before it and the
\* committing snapshot's airspeed >= takeoff_speed_min; a commit of Landing has
\* was_airborne true before it.
C8_TakeoffLanding ==
    [][/\ (current_phase = "PARKED" /\ current_phase' = "TAKEOFF") =>
            (~was_airborne /\ commit_ias' >= takeoff_speed_min)
       /\ (current_phase # "LANDING" /\ current_phase' = "LANDING") =>
            was_airborne]_vars

\* the detection table of the specification: ground rows by airspeed, airborne
\* rows by vertical speed, then by altitude
TableRow(tel) ==
    IF tel.on_ground
    THEN (CASE tel.ias < 10 -> "slow"
            [] tel.ias >= 10 /\ tel.ias < taxi_speed_max -> "taxi"
            [] tel.ias >= taxi_speed_max -> "fast")
    ELSE (CASE tel.vertical_speed > climb_vs_threshold -> "climb"
            [] tel.vertical_speed < descent_vs_threshold -> "descend"
            [] OTHER -> "level")

TablePhase(tel, airborne) ==
    LET agl == IF tel.has_agl THEN tel.altitude_agl ELSE tel.altitude_msl
        row == TableRow(tel)
    IN  CASE row = "slow" -> (IF airborne THEN "TAXI_IN" ELSE "PARKED")
          [] row = "taxi" -> (IF airborne THEN "TAXI_IN" ELSE "TAXI_OUT")
          [] row = "fast" -> (IF airborne THEN "LANDING" ELSE "TAKEOFF")
          [] row = "climb" ->
                (IF tel.altitude_msl < departure_altitude_msl THEN "DEPARTURE" ELSE "CRUISE")
          [] row = "descend" ->
                (IF agl < pattern_altitude_agl THEN "APPROACH" ELSE "DESCENT")
          [] row = "level" ->
                (IF agl < pattern_altitude_agl THEN "APPROACH" ELSE "CRUISE")

\* C9: for every connected snapshot and every value of was_airborne the detected
\* phase is the one the precedence table gives, and never Unknown (a snapshot
\* without an AGL altitude is read with its MSL altitude in its place).
C9_DetectionTable ==
    det_out # NoPhase =>
        /\ det_out = TablePhase(det_in, was_airborne)
        /\ det_out \in FlightPhase \ {"UNKNOWN"}

\* a snapshot on the taxi_speed_max threshold, detected after a flight
C9_Witness ==
    /\ det_out = "LANDING"
    /\ det_in.ias = taxi_speed_max
    /\ was_airborne

\* C10: update with absent or disconnected telemetry returns Unknown and the
\* phase the tracker reports afterwards is Unknown.
C10_DisconnectedUnknown ==
    (ph_call.op = "update" /\ ph_call.detected = NoPhase) =>
        /\ ph_call.ret = "UNKNOWN"
        /\ current_phase = "UNKNOWN"

----------------------------------------------------------------------------
(* validate_atc_response                                                   *)
(*                                                                         *)
(* A response is a sequence of atoms joined by single spaces, optionally   *)
(* wrapped in a pair of quotes. An atom is a stretch of text that a        *)
(* regular expression of validation.py matches as a whole, or inside which *)
(* it matches a part (NestedAtoms), or not at all: re.search is "some atom *)
(* matches" and re.sub leaves of each matching atom what the match did not *)
(* cover.                                                                  *)
(* An issue or a warning is the sequence of the words of its message, and  *)
(* Python's `kw in issue` is "the words of kw occur in it in a row".       *)
(***************************************************************************)

\* the longest response, in atoms
MaxAtoms == 2

\* SUSPICIOUS_PATTERNS, in list order: the atom each pattern matches and its description
\* (the atom "code fence" is the three backquotes of a code block)
SUSPICIOUS_PATTERNS ==
    << [atom |-> "<|im_end|>",     description |-> <<"LLM", "control", "token">>],
       [atom |-> "[INST]",         description |-> <<"Instruction", "marker">>],
       [atom |-> "[/INST]",        description |-> <<"Instruction", "marker">>],
       [atom |-> "<<SYS>>",        description |-> <<"System", "prompt", "marker">>],
       [atom |-> "<</SYS>>",       description |-> <<"System", "prompt", "marker">>],
       [atom |-> "### Human:",     description |-> <<"Chat", "role", "marker">>],
       [atom |-> "code fence",     description |-> <<"Code", "block">>],
       [atom |-> "<script",        description |-> <<"Script", "tag">>],
       [atom |-> "function(",      description |-> <<"JavaScript", "function">>],
       [atom |-> "def f(",         description |-> <<"Python", "function">>],
       [atom |-> "As an AI",       description |-> <<"AI", "self-reference">>],
       [atom |-> "I'm an AI",      description |-> <<"AI", "self-reference">>],
       [atom |-> "language model", description |-> <<"AI", "self-reference">>],
       [atom |-> "I cannot",       description |-> <<"Refusal", "phrase">>],
       [atom |-> "I'm sorry, but", description |-> <<"Apology", "phrase">>] >>

\* atoms in which a pattern (named by the atom it matches as a whole) matches a
\* part, and what re.sub leaves of them
NestedAtoms ==
    { [atom |-> "[IN[INST]ST]", pattern |-> "[INST]",  rest |-> "[INST]"],
      [atom |-> "<|def f(|>", pattern |-> "<|im_end|>", rest |-> ""],
      [atom |-> "<|def f(|>", pattern |-> "def f(",     rest |-> "<||>"],
      [atom |-> "<||>",       pattern |-> "<|im_end|>", rest |-> ""] }

\* atoms with a run of two blanks inside, and what the whitespace collapse makes of them
SpacedAtoms == {"As an  AI"}

Collapse(a) == IF a = "As an  AI" THEN "As an AI" ELSE a

\* PROHIBITED_PHRASES and IFR_SCOPE_VIOLATIONS: the atoms of the model they match
PROHIBITED_PHRASES ==
    << [atom |-> "taking off", description |-> <<"Use", "'departing'", "instead">>],
       [atom |-> "with you",
        description |-> <<"Just", "state", "position,", "don't", "say", "'with", "you'">>] >>

IFR_SCOPE_VIOLATIONS ==
    << [atom |-> "cleared ILS runway 28", description |-> <<"IFR", "approach", "-", "out", "of", "scope">>],
       [atom |-> "hold as published",
        description |-> <<"Holding", "pattern", "-", "out", "of", "scope">>] >>

\* ATC_VALIDATION_RULES (frequencies in kHz)
altitude_max == 60000
freq_min == 118000
freq_max == 137000
squawk_max == 7777

\* atoms that carry a number: what the number regexes of validate_atc_response extract
NumberAtoms ==
    {"squawk 8521", "Squawk 4591", "squawk 4521", "70000 feet", "3500 feet", "FL700",
     "140.500", "121.900"}

PlainAtoms == {"Ok", "Roger", "Cessna 12345, radar contact"}

SeqRange(q) == {q[i] : i \in 1..Len(q)}

Atoms ==
    {r.atom : r \in SeqRange(SUSPICIOUS_PATTERNS)}
    \cup {r.atom : r \in SeqRange(PROHIBITED_PHRASES)}
    \cup {r.atom : r \in SeqRange(IFR_SCOPE_VIOLATIONS)}
    \cup NumberAtoms \cup PlainAtoms
    \cup {"[IN[INST]ST]", "<|def f(|>"} \cup SpacedAtoms

\* len(atom)
AtomLen(a) ==
    CASE a = "<|im_end|>" -> 10 [] a = "[INST]" -> 6 [] a = "[/INST]" -> 7
      [] a = "<<SYS>>" -> 7 [] a = "<</SYS>>" -> 8 [] a = "### Human:" -> 10
      [] a = "code fence" -> 3 [] a = "<script" -> 7 [] a = "function(" -> 9
      [] a = "def f(" -> 6 [] a = "As an AI" -> 8 [] a = "I'm an AI" -> 9
      [] a = "language model" -> 14 [] a = "I cannot" -> 8 [] a = "I'm sorry, but" -> 14
      [] a = "taking off" -> 10 [] a = "with you" -> 8
      [] a = "cleared ILS runway 28" -> 21 [] a = "hold as published" -> 17
      [] a = "squawk 8521" -> 11 [] a = "Squawk 4591" -> 11
      [] a = "squawk 4521" -> 11 [] a = "70000 feet" -> 10
      [] a = "3500 feet" -> 9 [] a = "FL700" -> 5 [] a = "140.500" -> 7
      [] a = "121.900" -> 7
      [] a = "[IN[INST]ST]" -> 12 [] a = "<|def f(|>" -> 10 [] a = "<||>" -> 4
      [] a = "As an  AI" -> 9
      [] a = "Ok" -> 2 [] a = "Roger" -> 5 [] a = "Cessna 12345, radar contact" -> 27

\* the raw responses: "" is the unquoted response of no atoms
Responses ==
    {[quote |-> q, atoms |-> t] :
        q \in {"", "\"", "'"},
        t \in UNION {[1..n -> Atoms] : n \in 0..MaxAtoms}}

\* `kw in text` on word sequences
Contains(text, kw) ==
    \E i \in 1..(Len(text) - Len(kw) + 1) : SubSeq(text, i, i + Len(kw) - 1) = kw

\* the pattern matches the atom or a part of it
Matches(pat, a) ==
    \/ a = pat.atom
    \/ \E c \in NestedAtoms : c.atom = a /\ c.pattern = pat.atom

\* what one pass of re.sub(pattern, "", ...) leaves of an atom
Residue(pat, a) ==
    IF a = pat.atom THEN ""
    ELSE IF \E c \in NestedAtoms : c.atom = a /\ c.pattern = pat.atom
    THEN (CHOOSE c \in NestedAtoms : c.atom = a /\ c.pattern = pat.atom).rest
    ELSE a

\* re.search(pattern, cleaned) on the atoms still in cleaned
Search(pat, atoms) == \E i \in 1..Len(atoms) : Matches(pat, atoms[i])

\* re.sub(pattern, "", cleaned): the matching stretches become empty
Sub(pat, atoms) == [i \in 1..Len(atoms) |-> Residue(pat, atoms[i])]

\* the loop over SUSPICIOUS_PATTERNS from pattern k on: (issues, cleaned)
RECURSIVE ScanSuspicious(_, _, _)
ScanSuspicious(k, issues, atoms) ==
    IF k > Len(SUSPICIOUS_PATTERNS) THEN [issues |-> issues, atoms |-> atoms]
    ELSE LET pat == SUSPICIOUS_PATTERNS[k]
         IN  IF Search(pat, atoms)
             THEN ScanSuspicious(k + 1, Append(issues, <<"Contains">> \o pat.description),
                                 Sub(pat, atoms))
             ELSE ScanSuspicious(k + 1, issues, atoms)

\* a mutant: the loops append nothing
ScanNoWarnings(table, prefix, k, warnings, atoms) == warnings

\* the loops over PROHIBITED_PHRASES and IFR_SCOPE_VIOLATIONS
RECURSIVE ScanWarnings(_, _, _, _, _)
ScanWarnings(table, prefix, k, warnings, atoms) ==
    IF k > Len(table) THEN warnings
    ELSE ScanWarnings(table, prefix, k + 1,
                      IF Search(table[k], atoms)
                      THEN Append(warnings, <<prefix>> \o table[k].description)
                      ELSE warnings,
                      atoms)

\* a mutant: the number checks raise nothing
NoNumberIssues(a) == <<>>

\* the issue, if any, that the number checks raise for one atom
NumberIssues(a) ==
    CASE a = "70000 feet" ->
            (IF 70000 > altitude_max THEN << <<"Unrealistic", "altitude:", "70000ft">> >>
             ELSE <<>>)
      [] a = "3500 feet" ->
            (IF 3500 > altitude_max THEN << <<"Unrealistic", "altitude:", "3500ft">> >>
             ELSE <<>>)
      [] a = "FL700" ->
            (IF 700 * 100 > altitude_max
             THEN << <<"Unrealistic", "flight", "level:", "FL700">> >> ELSE <<>>)
      [] a = "140.500" ->
            (IF ~(freq_min <= 140500 /\ 140500 <= freq_max) /\ ~(0 <= 140500 /\ 140500 <= 7777000)
             THEN << <<"Invalid", "frequency:", "140.500">> >> ELSE <<>>)
      [] a = "121.900" ->
            (IF ~(freq_min <= 121900 /\ 121900 <= freq_max) /\ ~(0 <= 121900 /\ 121900 <= 7777000)
             THEN << <<"Invalid", "frequency:", "121.900">> >> ELSE <<>>)
      [] a = "squawk 8521" ->
            (IF \E d \in {8, 5, 2, 1} : d \in {8, 9}
             THEN << <<"Invalid", "squawk", "code", "(contains", "8", "or", "9):", "8521">> >>
             ELSE IF 8521 > squawk_max
             THEN << <<"Invalid", "squawk", "code:", "8521">> >> ELSE <<>>)
      [] a = "Squawk 4591" ->
            (IF \E d \in {4, 5, 9, 1} : d \in {8, 9}
             THEN << <<"Invalid", "squawk", "code", "(contains", "8", "or", "9):", "4591">> >>
             ELSE IF 4591 > squawk_max
             THEN << <<"Invalid", "squawk", "code:", "4591">> >> ELSE <<>>)
      [] a = "squawk 4521" ->
            (IF \E d \in {4, 5, 2, 1} : d \in {8, 9}
             THEN << <<"Invalid", "squawk", "code", "(contains", "8", "or", "9):", "4521">> >>
             ELSE IF 4521 > squawk_max
             THEN << <<"Invalid", "squawk", "code:", "4521">> >> ELSE <<>>)
      [] OTHER -> <<>>

\* the number checks, one regex after the other over the whole text
RECURSIVE ScanNumbers(_, _, _)
ScanNumbers(kinds, i, atoms) ==
    IF kinds = <<>> THEN <<>>
    ELSE IF i > Len(atoms) THEN ScanNumbers(Tail(kinds), 1, atoms)
    ELSE (IF atoms[i] \in Head(kinds) THEN NumberIssues(atoms[i]) ELSE <<>>)
         \o ScanNumbers(kinds, i + 1, atoms)

NumberChecks(atoms) ==
    ScanNumbers(<< {"70000 feet", "3500 feet"}, {"FL700"}, {"140.500", "121.900"},
                   {"squawk 8521", "Squawk 4591", "squawk 4521"} >>, 1, atoms)

\* cleaned after strip, quote removal and whitespace collapse: the atoms left and the
\* blanks that remain at its ends
Cleanup(quote, atoms) ==
    LET n == Len(atoms)
        left == SelectSeq(atoms, LAMBDA a : a # "")
        kept == [i \in 1..Len(left) |-> Collapse(left[i])]
        quoted == quote # ""
    IN  [atoms |-> kept,
         blank |-> quoted /\ kept = <<>> /\ n >= 2,
         lead |-> quoted /\ kept # <<>> /\ atoms[1] = "",
         trail |-> quoted /\ kept # <<>> /\ atoms[n] = ""]

RECURSIVE SumLen(_)
SumLen(atoms) == IF atoms = <<>> THEN 0 ELSE AtomLen(Head(atoms)) + SumLen(Tail(atoms))

\* len(cleaned)
CleanedLen(c) ==
    IF c.atoms = <<>> THEN (IF c.blank THEN 1 ELSE 0)
    ELSE SumLen(c.atoms) + (Len(c.atoms) - 1)
         + (IF c.lead THEN 1 ELSE 0) + (IF c.trail THEN 1 ELSE 0)

\* the keywords that make an issue critical
CriticalKeywords ==
    { <<"LLM", "control">>, <<"System", "prompt">>, <<"Script", "tag">>, <<"Empty">>,
      <<"too", "short">> }

\* any(kw in i for kw in [...])
IsCritical(issue) == \E kw \in CriticalKeywords : Contains(issue, kw)

SayAgain == [atoms |-> <<"Say again">>, blank |-> FALSE, lead |-> FALSE, trail |-> FALSE]

validate_atc_response(response) ==
    IF response.quote = "" /\ response.atoms = <<>>
    THEN [valid |-> FALSE, cleaned_response |-> Cleanup("", <<>>),
          issues |-> << <<"Empty", "response">> >>,
          original_response |-> [quote |-> "", atoms |-> <<>>], warnings |-> <<>>]
    ELSE LET scan == ScanSuspicious(1, <<>>, response.atoms)
             prohibited == ScanWarnings(PROHIBITED_PHRASES, "Prohibited:", 1, <<>>, scan.atoms)
             warnings == ScanWarnings(IFR_SCOPE_VIOLATIONS, "SCOPE:", 1, prohibited, scan.atoms)
             numbers == scan.issues \o NumberChecks(scan.atoms)
             cleaned == Cleanup(response.quote, scan.atoms)
             issues == IF CleanedLen(cleaned) < 5
                       THEN Append(numbers, <<"Response", "too", "short">>)
                       ELSE numbers
             critical_issues == SelectSeq(issues, IsCritical)
         IN  [valid |-> Len(critical_issues) = 0,
              cleaned_response |-> IF CleanedLen(cleaned) > 0 THEN cleaned ELSE SayAgain,
              issues |-> issues,
              original_response |-> response,
              warnings |-> warnings]

Validate ==
    /\ val_out = NoResult
    /\ val_out' = validate_atc_response(val_in)
    /\ UNCHANGED <<val_in, notValidate>>

InitValidateSpec ==
    /\ clock = 0
    /\ InitPhase
    /\ InitDetectIdle
    /\ val_in \in Responses
    /\ val_out = NoResult
    /\ InitStream
    /\ InitCache
    /\ InitHandoff
    /\ InitExpectedIdle
    /\ InitSquawk
    /\ InitParseIdle
    /\ InitFuzzyIdle
    /\ InitThreadsIdle
    /\ InitServices
    /\ InitReadbackIdle
    /\ InitStreamObs

NextValidate == Validate

SpecValidate == InitValidateSpec /\ [][NextValidate]_vars

----------------------------------------------------------------------------
(* Claims about validate_atc_response *)

\* the response matches a leakage pattern
MatchesLeakage(response) ==
    \E k \in 1..Len(SUSPICIOUS_PATTERNS) : Search(SUSPICIOUS_PATTERNS[k], response.atoms)

\* C5: validate(text).valid is true exactly when the text matches no leakage
\* pattern and the issues hold neither "Empty response" nor "Response too short";
\* a text of at least 5 cleaned characters with no pattern match and no numeric
\* anomaly is valid with no issues.
C5_ValidIffNoFatalIssue ==
    val_out # NoResult =>
        /\ val_out.valid <=>
              /\ ~MatchesLeakage(val_in)
              /\ \A i \in 1..Len(val_out.issues) :
                    val_out.issues[i] \notin { <<"Empty", "response">>,
                                               <<"Response", "too", "short">> }
        /\ (/\ ~MatchesLeakage(val_in)
            /\ CleanedLen(Cleanup(val_in.quote, val_in.atoms)) >= 5
            /\ \A i \in 1..Len(val_in.atoms) : NumberIssues(val_in.atoms[i]) = <<>>)
           => (val_out.valid /\ val_out.issues = <<>>)

----------------------------------------------------------------------------
(* StreamingLLM and StreamingATCController                                 *)
(*                                                                         *)
(* process_request runs the generator of generate_stream in its own thread:*)
(* one step posts the request, one step handles one received network line  *)
(* (with the on_chunk callback and the consumer's reaction to the chunk it *)
(* yields), one step finishes the request. stop() comes from another       *)
(* thread between any two of them.                                         *)
(***************************************************************************)

\* the network lines one request may receive
MaxLines == 4

\* StreamingLLM(min_chunk_chars, max_chunk_chars) of the model
min_chunk_chars == 2
max_chunk_chars == 3

\* PHRASE_BOUNDARIES, and str.strip()'s whitespace, among the characters of the model
PhraseBoundaries == {".", "!", "?", ",", ";", ":", "\n"}
Whitespace == {" ", "\n"}

\* the tokens a line may carry in "response"
Tokens == { <<>>, <<"a">>, <<",">>, <<" ">>, <<"\n">> }

\* the lines of response.iter_lines(): a keep-alive blank, a line that is not
\* JSON, or {"response": token, "done": done}
StreamLines ==
    {[kind |-> "blank", token |-> <<>>, done |-> FALSE],
     [kind |-> "malformed", token |-> <<>>, done |-> FALSE]}
    \cup {[kind |-> "json", token |-> t, done |-> d] : t \in Tokens, d \in BOOLEAN}

\* str.strip()
RECURSIVE LStrip(_)
LStrip(str) ==
    IF str # <<>> /\ Head(str) \in Whitespace THEN LStrip(Tail(str)) ELSE str

RECURSIVE RStrip(_)
RStrip(str) ==
    IF str # <<>> /\ str[Len(str)] \in Whitespace
    THEN RStrip(SubSeq(str, 1, Len(str) - 1)) ELSE str

Strip(str) == RStrip(LStrip(str))

\* PHRASE_BOUNDARIES.search(buffer)
HasBoundary(buf) == \E i \in 1..Len(buf) : buf[i] \in PhraseBoundaries

\* a mutant: a chunk is emitted only at the maximum length or at the end
ShouldEmitAtMaxOnly(buf, is_done) ==
    \/ is_done
    \/ Len(buf) >= max_chunk_chars

\* StreamingLLM._should_emit_chunk
ShouldEmitChunk(buf, is_done) ==
    \/ is_done
    \/ Len(buf) >= max_chunk_chars
    \/ (Len(buf) >= min_chunk_chars /\ HasBoundary(buf))

\* StreamingLLM._extract_chunk (latency_ms left out)
ExtractChunk(buf, is_final) == [text |-> Strip(buf), is_final |-> is_final]

\* a mutant: the chunk of the except clauses is not marked final
EmptyChunkNotFinal == [text |-> <<>>, is_final |-> FALSE]

\* the empty final chunk of the except clauses
EmptyFinalChunk == [text |-> <<>>, is_final |-> TRUE]

\* the on_chunk closure of process_request: the texts it appends and speaks
OnChunk(chunk) == IF chunk.text # <<>> THEN <<chunk.text>> ELSE <<>>

\* " ".join(full_response)
RECURSIVE JoinText(_)
JoinText(parts) ==
    IF parts = <<>> THEN <<>>
    ELSE IF Len(parts) = 1 THEN parts[1]
    ELSE parts[1] \o <<" ">> \o JoinText(Tail(parts))

\* process_request up to the for loop; is_available() answers `available`
ProcessRequest(available) ==
    /\ ctl_pc = "idle"
    /\ IF ~available
       THEN /\ ctl_ret' = FALSE
            /\ UNCHANGED <<llmVars, ctl_pc, processing, full_response, completed, spoken>>
       ELSE /\ processing' = TRUE
            /\ full_response' = <<>>
            /\ spoken' = <<>>
            /\ chunks' = <<>>
            /\ lines_read' = 0
            /\ buffer' = <<>>
            /\ llm_pc' = "post"
            /\ ctl_pc' = "streaming"
            /\ ctl_ret' = "None"
            /\ completed' = "None"
            /\ UNCHANGED stop_event
    /\ stream_obs' = IF available
                     THEN [received |-> <<>>, malformed |-> FALSE, done |-> FALSE,
                           stopped |-> FALSE]
                     ELSE stream_obs
    /\ UNCHANGED <<validated_chunks, notStream>>

\* the first step of the generator: clear the stop event and post the request
Post(outcome) ==
    /\ llm_pc = "post"
    /\ stop_event' = FALSE
    /\ buffer' = <<>>
    /\ IF outcome = "ok"
       THEN /\ llm_pc' = "lines"
            /\ UNCHANGED <<chunks, ctl_pc>>
       ELSE \* Timeout, ConnectionError or another exception: one empty final
            \* chunk, yielded without on_chunk; the consumer breaks on it
            /\ chunks' = Append(chunks, EmptyFinalChunk)
            /\ llm_pc' = "suspended"
            /\ ctl_pc' = "finishing"
    /\ UNCHANGED <<lines_read, processing, full_response, ctl_ret, completed, spoken,
                   validated_chunks, stream_obs, notStream>>

\* a mutant: the buffer is not emptied when a chunk is emitted
LineResultKeepsBuffer(buf, line) ==
    LET grown == buf \o line.token
        emit == line.token # <<>> /\ ShouldEmitChunk(grown, line.done)
        flush == ~emit /\ line.done /\ Strip(grown) # <<>>
    IN  [yielded |-> IF emit THEN <<ExtractChunk(grown, line.done)>>
                     ELSE IF flush THEN <<[text |-> Strip(grown), is_final |-> TRUE]>>
                     ELSE <<>>,
         buffer |-> grown,
         ended |-> line.done]

\* the chunk, if any, that one JSON line makes the generator yield, and the buffer left
LineResult(buf, line) ==
    LET grown == buf \o line.token
        emit == line.token # <<>> /\ ShouldEmitChunk(grown, line.done)
        rest == IF emit THEN <<>> ELSE grown
        flush == ~emit /\ line.done /\ Strip(rest) # <<>>
    IN  [yielded |-> IF emit THEN <<ExtractChunk(grown, line.done)>>
                     ELSE IF flush THEN <<[text |-> Strip(rest), is_final |-> TRUE]>>
                     ELSE <<>>,
         buffer |-> rest,
         ended |-> line.done]

\* a mutant: the stop event is never seen set
IsSetNever(event) == FALSE

\* self._stop_event.is_set()
IsSet(event) == event

\* one iteration of `for line in response.iter_lines()`
Line(line) ==
    /\ llm_pc = "lines"
    /\ lines_read < MaxLines
    /\ lines_read' = lines_read + 1
    /\ IF IsSet(stop_event)
       THEN \* break: the generator returns, the consumer's loop ends
            /\ llm_pc' = "closed"
            /\ ctl_pc' = "finishing"
            /\ UNCHANGED <<buffer, chunks, full_response, spoken>>
       ELSE IF line.kind # "json"
       THEN \* `continue`, for a blank line and for one json.loads rejects
            UNCHANGED <<llm_pc, ctl_pc, buffer, chunks, full_response, spoken>>
       ELSE LET r == LineResult(buffer, line)
                said == IF r.yielded = <<>> THEN <<>> ELSE OnChunk(r.yielded[1])
                final == r.yielded # <<>> /\ r.yielded[1].is_final
            IN  /\ buffer' = r.buffer
                /\ chunks' = chunks \o r.yielded
                /\ full_response' = full_response \o said
                /\ spoken' = spoken \o said
                /\ llm_pc' = IF final THEN "suspended"
                             ELSE IF r.ended THEN "closed" ELSE "lines"
                /\ ctl_pc' = IF final \/ r.ended THEN "finishing" ELSE "streaming"
    /\ stream_obs' = IF IsSet(stop_event) THEN stream_obs
                     ELSE IF line.kind = "malformed"
                     THEN [stream_obs EXCEPT !.malformed = TRUE]
                     ELSE IF line.kind = "json"
                     THEN [stream_obs EXCEPT !.received = @ \o line.token,
                                             !.done = line.done]
                     ELSE stream_obs
    /\ UNCHANGED <<stop_event, processing, ctl_ret, completed, validated_chunks, notStream>>

\* iter_lines raises (the connection drops): the outer except yields the empty final chunk
LineError ==
    /\ llm_pc = "lines"
    /\ chunks' = Append(chunks, EmptyFinalChunk)
    /\ llm_pc' = "suspended"
    /\ ctl_pc' = "finishing"
    /\ UNCHANGED <<stop_event, buffer, lines_read, processing, full_response, ctl_ret,
                   completed, spoken, validated_chunks, stream_obs, notStream>>

\* the end of process_request: on_complete, return True, and the finally clause
Finish ==
    /\ ctl_pc = "finishing"
    /\ completed' = JoinText(full_response)
    /\ ctl_ret' = TRUE
    /\ processing' = FALSE
    /\ ctl_pc' = "idle"
    /\ llm_pc' = "idle"
    /\ UNCHANGED <<stop_event, buffer, chunks, lines_read, full_response, spoken,
                   validated_chunks, stream_obs, notStream>>

\* StreamingATCController.stop, from another thread
Stop ==
    /\ stop_event' = TRUE
    /\ processing' = FALSE
    /\ stream_obs' = [stream_obs EXCEPT !.stopped = TRUE]
    /\ UNCHANGED <<llm_pc, buffer, chunks, lines_read, ctl_pc, full_response, ctl_ret,
                   completed, spoken, validated_chunks, notStream>>

InitStreamSpec ==
    /\ clock = 0
    /\ InitPhase
    /\ InitDetectIdle
    /\ InitValidateIdle
    /\ InitStream
    /\ InitCache
    /\ InitHandoff
    /\ InitExpectedIdle
    /\ InitSquawk
    /\ InitParseIdle
    /\ InitFuzzyIdle
    /\ InitThreadsIdle
    /\ InitServices
    /\ InitReadbackIdle
    /\ InitStreamObs

NextStream ==
    \/ \E available \in BOOLEAN : ProcessRequest(available)
    \/ \E outcome \in {"ok", "timeout", "refused", "error"} : Post(outcome)
    \/ \E line \in StreamLines : Line(line)
    \/ LineError
    \/ Finish
    \/ Stop

SpecStream == InitStreamSpec /\ [][NextStream]_vars

----------------------------------------------------------------------------
(* Claims about the streaming path *)

\* C4: on the streaming path a chunk's text is handed to the speech function only
\* after the response validator has been applied to it: no chunk reaches the
\* speech sink unvalidated.
C4_SpokenOnlyValidated ==
    \A i \in 1..Len(spoken) : spoken[i] \in validated_chunks

----------------------------------------------------------------------------
(* SpeculativeCache                                                        *)
(*                                                                         *)
(* Three kinds of thread use the cache: the caller of update_context, the  *)
(* generation thread started by start(), and the callers of get. A step is *)
(* one critical section under self._lock, or one statement outside it.     *)
(* A prompt is the record of the fields _build_prompt formats into it, a   *)
(* response is the prompt the generation function answered, and the        *)
(* context hash is the tuple of the five fields md5 digests.               *)
(***************************************************************************)

\* the clock stops here in the cache's specification
MaxCacheClock == 2

\* the calls of update_context that change the context, and the calls of get
MaxContextChanges == 2
MaxGets == 1

\* SpeculativeCache(max_cache_size, ttl_seconds) of the model
max_cache_size == 1
ttl_seconds == 1

\* the contexts update_context is called with
CachePhases == {"takeoff"}
Airports == {"KSMF", "KLAX"}
Runway == "28"
Callsign == "N12345"
Frequency == "121.900"

\* PHASE_INTENTS: (intent key, description) pairs by FlightPhase value
PHASE_INTENTS(phase) ==
    CASE phase = "parked" ->
            << <<"request_taxi", "Pilot requests taxi clearance">>,
               <<"request_ifr_clearance", "Pilot requests IFR clearance">>,
               <<"atis_check", "Pilot has ATIS information">> >>
      [] phase = "taxi_out" ->
            << <<"hold_short_readback", "Pilot reads back hold short">>,
               <<"ready_for_departure", "Pilot reports ready for departure">>,
               <<"request_intersection", "Pilot requests intersection departure">> >>
      [] phase = "holding" ->
            << <<"ready_for_takeoff", "Pilot reports ready for takeoff">>,
               <<"line_up_and_wait", "Pilot acknowledges line up and wait">> >>
      [] phase = "takeoff" ->
            << <<"contact_departure", "Pilot contacts departure">>,
               <<"airborne_check_in", "Pilot checks in after takeoff">> >>
      [] phase = "departure" ->
            << <<"altitude_leaving", "Pilot reports leaving altitude">>,
               <<"request_flight_following", "Pilot requests VFR flight following">> >>
      [] phase = "cruise" ->
            << <<"position_report", "Pilot gives position report">>,
               <<"request_altitude_change", "Pilot requests altitude change">>,
               <<"weather_request", "Pilot requests weather update">>,
               <<"radio_check", "Pilot requests radio check">> >>
      [] phase = "descent" ->
            << <<"request_lower", "Pilot requests lower altitude">>,
               <<"atis_received", "Pilot reports ATIS received">> >>
      [] phase = "approach" ->
            << <<"airport_in_sight", "Pilot reports airport in sight">>,
               <<"request_straight_in", "Pilot requests straight-in approach">>,
               <<"request_pattern", "Pilot requests pattern entry">> >>
      [] phase = "landing" ->
            << <<"clear_of_runway", "Pilot reports clear of runway">>,
               <<"request_taxi_parking", "Pilot requests taxi to parking">> >>
      [] phase = "taxi_in" ->
            << <<"at_gate", "Pilot reports at gate/parking">> >>
      [] OTHER -> <<>>

\* the intent keys get is called with
GetIntents == UNION {{PHASE_INTENTS(ph)[i][1] : i \in 1..Len(PHASE_INTENTS(ph))} : ph \in CachePhases}

\* hashlib.md5(f"{phase}|{airport}|{runway}|{callsign}|{frequency}").hexdigest()[:8]
ContextHash(phase, airport, runway, callsign, frequency) ==
    <<"md5", phase, airport, runway, callsign, frequency>>

\* SpeculativeCache._build_prompt
BuildPrompt(intent, airport, runway, callsign, frequency) ==
    [intent |-> intent, airport |-> airport, runway |-> runway, callsign |-> callsign,
     frequency |-> frequency]

\* self._cache.get(intent_key): the position of the entry, 0 when absent
Find(c, key) ==
    IF \E i \in 1..Len(c) : c[i].intent_key = key
    THEN CHOOSE i \in 1..Len(c) : c[i].intent_key = key
    ELSE 0

\* self._cache[intent_key] = entry
Put(c, entry) ==
    IF Find(c, entry.intent_key) > 0
    THEN [c EXCEPT ![Find(c, entry.intent_key)] = entry]
    ELSE Append(c, entry)

\* del self._cache[intent_key]
Remove(c, i) == SubSeq(c, 1, i - 1) \o SubSeq(c, i + 1, Len(c))

\* a mutant: the entry that was hit least is evicted first
LeastHit(c) ==
    CHOOSE i \in 1..Len(c) :
        \A j \in 1..Len(c) :
            \/ c[i].hit_count < c[j].hit_count
            \/ (c[i].hit_count = c[j].hit_count /\ i <= j)

\* the first entry of sorted(self._cache.items(), key=generated_at)
Oldest(c) ==
    CHOOSE i \in 1..Len(c) :
        \A j \in 1..Len(c) :
            \/ c[i].generated_at < c[j].generated_at
            \/ (c[i].generated_at = c[j].generated_at /\ i <= j)

\* SpeculativeCache._trim_cache
RECURSIVE TrimCache(_)
TrimCache(c) ==
    IF Len(c) <= max_cache_size THEN c ELSE TrimCache(Remove(c, Oldest(c)))

\* a mutant: get serves an entry whatever context it was stored under
HashMatchesAlways(entry_hash, live) == TRUE

\* entry.context_hash != self._current_context_hash, negated
HashMatches(entry_hash, live) == entry_hash = live

\* SpeculativeCache.start (a start while the generation thread is alive is not modelled)
CacheStart ==
    /\ worker.pc \in {"none", "exited"}
    /\ running' = TRUE
    /\ worker' = [pc |-> "loop", item |-> NoItem, response |-> NoResponse]
    /\ UNCHANGED <<clock, cache, stats, current_context_hash, generation_queue, updater,
                   cacheObs, notCache>>

\* SpeculativeCache.stop
CacheStop ==
    /\ running
    /\ running' = FALSE
    /\ UNCHANGED <<clock, cache, stats, current_context_hash, generation_queue,
                   cacheThreads, cacheObs, notCache>>

\* a mutant: update_context invalidates and queues without comparing the hashes
UpdateContextAlways(phase, airport) ==
    /\ updater.pc = "idle"
    /\ stats.invalidations < MaxContextChanges
    /\ updater' = [pc |-> "invalidate", phase |-> phase, airport |-> airport, todo |-> <<>>]
    /\ UNCHANGED <<clock, cacheVars, worker, cacheObs, notCache>>

\* update_context up to the comparison of the hashes
UpdateContext(phase, airport) ==
    /\ updater.pc = "idle"
    /\ LET new_hash == ContextHash(phase, airport, Runway, Callsign, Frequency)
       IN  IF new_hash # current_context_hash
           THEN /\ stats.invalidations < MaxContextChanges
                /\ updater' = [pc |-> "invalidate", phase |-> phase, airport |-> airport,
                               todo |-> <<>>]
           ELSE UNCHANGED updater
    /\ UNCHANGED <<clock, cacheVars, worker, cacheObs, notCache>>

\* SpeculativeCache._invalidate_cache, one critical section
InvalidateCache ==
    /\ updater.pc = "invalidate"
    /\ cache' = <<>>
    /\ stats' = [stats EXCEPT !.invalidations = @ + 1]
    /\ updater' = [updater EXCEPT !.pc = "install"]
    /\ UNCHANGED <<clock, current_context_hash, generation_queue, running, worker,
                   stored_live, notCache>>

\* self._current_context_hash = new_hash, outside the lock
InstallHash ==
    /\ updater.pc = "install"
    /\ current_context_hash' =
            ContextHash(updater.phase, updater.airport, Runway, Callsign, Frequency)
    /\ updater' = [updater EXCEPT !.pc = "queue", !.todo = PHASE_INTENTS(updater.phase)]
    /\ stored_live' = {}
    /\ UNCHANGED <<clock, cache, stats, generation_queue, running, worker, notCache>>

\* one iteration of the loop of _queue_phase_generations
QueueGeneration ==
    /\ updater.pc = "queue"
    /\ LET intent == Head(updater.todo)
           prompt == BuildPrompt(intent[2], updater.airport, Runway, Callsign, Frequency)
       IN  generation_queue' =
               Append(generation_queue,
                      [intent_key |-> intent[1], prompt |-> prompt, phase |-> updater.phase])
    /\ updater' = IF Len(updater.todo) = 1
                  THEN [pc |-> "idle", phase |-> "None", airport |-> "None", todo |-> <<>>]
                  ELSE [updater EXCEPT !.todo = Tail(@)]
    /\ UNCHANGED <<clock, cache, stats, current_context_hash, running, worker, cacheObs,
                   notCache>>

\* one iteration of _generation_loop up to the call of _generate_and_cache
WorkerLoop ==
    /\ worker.pc = "loop"
    /\ IF ~running
       THEN /\ worker' = [worker EXCEPT !.pc = "exited"]
            /\ UNCHANGED generation_queue
       ELSE IF generation_queue # <<>>
       THEN /\ worker' = [worker EXCEPT !.pc = "generate", !.item = Head(generation_queue)]
            /\ generation_queue' = Tail(generation_queue)
       ELSE \* time.sleep(0.5)
            UNCHANGED <<worker, generation_queue>>
    /\ UNCHANGED <<clock, cache, stats, current_context_hash, running, updater, cacheObs,
                   notCache>>

\* response = self.generate_func(prompt): a text, an empty result, or an exception
Generate(outcome) ==
    /\ worker.pc = "generate"
    /\ worker' = IF outcome = "text"
                 THEN [worker EXCEPT !.pc = "store",
                                     !.response = [reply_to |-> worker.item.prompt]]
                 ELSE [pc |-> "loop", item |-> NoItem, response |-> NoResponse]
    /\ UNCHANGED <<clock, cacheVars, updater, cacheObs, notCache>>

\* the critical section of _generate_and_cache
Store ==
    /\ worker.pc = "store"
    /\ cache' = TrimCache(Put(cache,
                    [intent_key |-> worker.item.intent_key,
                     prompt_template |-> worker.item.prompt,
                     response_text |-> worker.response,
                     flight_phase |-> worker.item.phase,
                     context_hash |-> current_context_hash,
                     generated_at |-> clock,
                     hit_count |-> 0]))
    /\ stats' = [stats EXCEPT !.generations = @ + 1]
    /\ worker' = [pc |-> "loop", item |-> NoItem, response |-> NoResponse]
    /\ stored_live' = stored_live \cup {worker.item.intent_key}
    /\ UNCHANGED <<clock, current_context_hash, generation_queue, running, updater,
                   notCache>>

\* a mutant: an entry expires when its age reaches the TTL
ExpiredAtTtl(age) == age >= ttl_seconds

\* age > self.ttl_seconds
Expired(age) == age > ttl_seconds

\* SpeculativeCache.get, one critical section: the cache and stats after it, and the
\* entry it serves (NoEntry on a miss)
GetResult(c, st, intent_key, now, live) ==
    LET i == Find(c, intent_key)
    IN  IF i = 0
        THEN [cache |-> c, stats |-> [st EXCEPT !.misses = @ + 1], served |-> NoEntry]
        ELSE IF Expired(now - c[i].generated_at)
        THEN [cache |-> Remove(c, i), stats |-> [st EXCEPT !.misses = @ + 1],
              served |-> NoEntry]
        ELSE IF ~HashMatches(c[i].context_hash, live)
        THEN [cache |-> c, stats |-> [st EXCEPT !.misses = @ + 1], served |-> NoEntry]
        ELSE [cache |-> [c EXCEPT ![i].hit_count = @ + 1],
              stats |-> [st EXCEPT !.hits = @ + 1],
              served |-> c[i]]

Get(intent_key) ==
    /\ stats.hits + stats.misses < MaxGets
    /\ LET r == GetResult(cache, stats, intent_key, clock, current_context_hash)
       IN  /\ cache' = r.cache
           /\ stats' = r.stats
    /\ UNCHANGED <<clock, current_context_hash, generation_queue, running, cacheThreads,
                   cacheObs, notCache>>

\* the wall clock advances
CacheTick ==
    /\ clock < MaxCacheClock
    /\ clock' = clock + 1
    /\ UNCHANGED <<cacheAll, notCache>>

InitCacheSpec ==
    /\ clock = 0
    /\ InitPhase
    /\ InitDetectIdle
    /\ InitValidateIdle
    /\ InitStream
    /\ InitCache
    /\ InitHandoff
    /\ InitExpectedIdle
    /\ InitSquawk
    /\ InitParseIdle
    /\ InitFuzzyIdle
    /\ InitThreadsIdle
    /\ InitServices
    /\ InitReadbackIdle
    /\ InitStreamObs

NextCache ==
    \/ CacheStart
    \/ CacheStop
    \/ \E phase \in CachePhases, airport \in Airports : UpdateContext(phase, airport)
    \/ InvalidateCache
    \/ InstallHash
    \/ QueueGeneration
    \/ WorkerLoop
    \/ \E outcome \in {"text", "empty", "raise"} : Generate(outcome)
    \/ Store
    \/ \E intent_key \in GetIntents : Get(intent_key)
    \/ CacheTick

SpecCache == InitCacheSpec /\ [][NextCache]_vars

\* the entry get(k) serves from the current state, NoEntry on a miss
ServedBy(k) == GetResult(cache, stats, k, clock, current_context_hash).served

\* the context the prompt of an entry was built for, as a fingerprint
PromptContext(entry) ==
    ContextHash(entry.flight_phase, entry.prompt_template.airport,
                entry.prompt_template.runway, entry.prompt_template.callsign,
                entry.prompt_template.frequency)

\* C1: in every interleaving of update_context, the worker's store and get, a get
\* that returns text serves an entry whose stored fingerprint is the live one, and
\* the worker has stored that intent since the live fingerprint was installed (so
\* after a context change every get misses until such a store).
C1_NoStaleHit ==
    [][\A k \in GetIntents :
          (Get(k) /\ ServedBy(k) # NoEntry) =>
              /\ ServedBy(k).context_hash = current_context_hash
              /\ k \in stored_live]_vars

\* a get has returned text after the second change of context
C1_Witness ==
    /\ stats.hits > 0
    /\ stats.invalidations = MaxContextChanges
    /\ updater.pc = "idle"
    /\ \E i \in 1..Len(cache) :
          /\ cache[i].hit_count > 0
          /\ cache[i].context_hash = current_context_hash

\* C2: a response generated from a prompt enqueued under fingerprint F is never
\* returned by get once the live fingerprint is F' # F: every entry get serves
\* answers a prompt built for the live context.
C2_NoCrossContextServe ==
    [][\A k \in GetIntents :
          (Get(k) /\ ServedBy(k) # NoEntry) =>
              PromptContext(ServedBy(k)) = current_context_hash]_vars

\* C3: clearing the map and installing the new fingerprint is one atomic step:
\* no get and no store runs after update_context has cleared the map and before
\* it has installed the new fingerprint.
C3_ClearInstallAtomic ==
    [][updater.pc = "install" => ~(Store \/ \E k \in GetIntents : Get(k))]_vars

----------------------------------------------------------------------------
(* HandoffManager                                                          *)
(*                                                                         *)
(* A phase string is the sequence of its words and separators, in the case *)
(* the caller wrote them; a facility name is the sequence of its words; a  *)
(* phraseology is the sequence of the words of the f-string.               *)
(***************************************************************************)

\* transitions stop when the history has this many entries
MaxHandoffs == 2

FacilityType == {"UNKNOWN", "CLEARANCE", "GROUND", "TOWER", "DEPARTURE", "APPROACH",
                 "CENTER", "UNICOM", "FLIGHT_SERVICE"}

\* the phase strings given to update: the names of both FlightPhase enums
PhaseNames ==
    {<<"PARKED">>, <<"TAXI", "_", "OUT">>, <<"taxi", "_", "in">>, <<"Takeoff">>,
     <<"departure">>, <<"CRUISE">>, <<"descent">>, <<"APPROACH">>, <<"landing">>}

\* the altitudes given to update, on both sides of every band edge
HandoffAltitudes == {1000, 3000, 8000, 10000, 18000, 20000}

\* the telemetry given to update
HandoffTelemetry ==
    {Snapshot(TRUE, g, 0, 0, a, FALSE, 0) : g \in BOOLEAN, a \in HandoffAltitudes}
    \cup {NoTelemetry, Snapshot(FALSE, FALSE, 0, 0, 20000, FALSE, 0)}

\* the airports given to set_departure_airport and to set_arrival_airport
Icao == {"KSMF", ""}
ArrivalIcao == {"KLAX"}

\* the facilities given to force_handoff_to
ForcedFacilities ==
    {[type |-> "TOWER", identifier |-> "KSMF", frequency |-> "118.300"],
     [type |-> "UNICOM", identifier |-> "", frequency |-> "122.800"],
     [type |-> "UNKNOWN", identifier |-> "", frequency |-> "121.500"]}

\* str.lower(), word by word
LowerWord(w) ==
    CASE w = "PARKED" -> "parked"
      [] w = "TAXI" -> "taxi"
      [] w = "OUT" -> "out"
      [] w = "Takeoff" -> "takeoff"
      [] w = "CRUISE" -> "cruise"
      [] w = "APPROACH" -> "approach"
      [] w = "Squawk" -> "squawk"
      [] w = "VFR" -> "vfr"
      [] w = "Ready" -> "ready"
      [] w = "HOLD" -> "hold"
      [] w = "ING" -> "ing"
      [] w = "SHORT" -> "short"
      [] w = "Taxi" -> "taxi"
      [] w = "Clear" -> "clear"
      [] OTHER -> w

Lower(text) == [i \in 1..Len(text) |-> LowerWord(text[i])]

\* "kw" in phase.lower()
PhaseHas(phase, kw) == Contains(Lower(phase), <<kw>>)

\* FacilityType.to_name
BaseName(type) ==
    CASE type = "CLEARANCE" -> "Clearance"
      [] type = "GROUND" -> "Ground"
      [] type = "TOWER" -> "Tower"
      [] type = "DEPARTURE" -> "Departure"
      [] type = "APPROACH" -> "Approach"
      [] type = "CENTER" -> "Center"
      [] type = "UNICOM" -> "Traffic"
      [] type = "FLIGHT_SERVICE" -> "Radio"
      [] OTHER -> "ATC"

ToName(type, identifier) ==
    IF identifier # "" THEN <<identifier, BaseName(type)>> ELSE <<BaseName(type)>>

\* Facility and Facility.name
Facility(type, identifier, frequency) ==
    [type |-> type, identifier |-> identifier, frequency |-> frequency]

FacilityName(f) == ToName(f.type, f.identifier)

\* self._departure_airport or ""
DepartureOrEmpty(dep) == IF dep = "None" THEN "" ELSE dep

\* a mutant: the tower band includes 3,000 ft
TakeoffFacilityShifted(altitude, dep) ==
    IF altitude <= 3000 THEN Facility("TOWER", DepartureOrEmpty(dep), "118.300")
    ELSE IF altitude < 10000 THEN Facility("DEPARTURE", "", "124.000")
    ELSE NoFacility

\* the takeoff/departure branch of _determine_expected_facility; NoFacility when
\* it falls through
TakeoffFacility(altitude, dep) ==
    IF altitude < 3000 THEN Facility("TOWER", DepartureOrEmpty(dep), "118.300")
    ELSE IF altitude < 10000 THEN Facility("DEPARTURE", "", "124.000")
    ELSE NoFacility

\* HandoffManager._determine_expected_facility
DetermineExpectedFacility(phase, altitude, on_ground, dep) ==
    IF on_ground /\ (PhaseHas(phase, "parked") \/ PhaseHas(phase, "taxi"))
    THEN Facility("GROUND", DepartureOrEmpty(dep), "121.900")
    ELSE IF (PhaseHas(phase, "takeoff") \/ PhaseHas(phase, "departure"))
            /\ TakeoffFacility(altitude, dep) # NoFacility
    THEN TakeoffFacility(altitude, dep)
    ELSE IF PhaseHas(phase, "cruise") \/ altitude > 18000
    THEN Facility("CENTER", "", "127.750")
    ELSE IF PhaseHas(phase, "descent") \/ PhaseHas(phase, "approach")
    THEN (IF altitude > 10000 THEN Facility("CENTER", "", "127.750")
          ELSE Facility("APPROACH", "", "124.350"))
    ELSE NoFacility

\* a mutant: from_name is always "frequency"
GenerateHandoffFromFrequency(current, history, to_facility) ==
    [history |-> Append(history, <<<<"frequency">>, FacilityName(to_facility)>>),
     phraseology |-> <<"Contact">> \o FacilityName(to_facility)
                     \o <<"on", to_facility.frequency>>]

\* HandoffManager._generate_handoff: the history after it and what it returns
GenerateHandoff(current, history, to_facility) ==
    LET from_name == IF current # NoFacility THEN FacilityName(current)
                     ELSE <<"frequency">>
    IN  [history |-> Append(history, <<from_name, FacilityName(to_facility)>>),
         phraseology |-> <<"Contact">> \o FacilityName(to_facility)
                         \o <<"on", to_facility.frequency>>]

\* a mutant: any difference between the expected and the current facility hands off
NeedsHandoffOnAnyDifference(expected, current) ==
    expected # NoFacility /\ expected # current

\* the condition of update's if
NeedsHandoff(expected, current) ==
    expected # NoFacility /\ (current = NoFacility \/ expected.type # current.type)

\* HandoffManager.update
HandoffUpdate(tel, flight_phase) ==
    IF ~tel.present \/ ~tel.connected
    THEN /\ ho_call' = [op |-> "update", expected |-> NoFacility, ret |-> NoPhraseology]
         /\ UNCHANGED <<handoffVars, notHandoff>>
    ELSE LET expected == DetermineExpectedFacility(flight_phase, tel.altitude_msl,
                                                   tel.on_ground, departure_airport)
         IN  IF NeedsHandoff(expected, current_facility)
             THEN LET g == GenerateHandoff(current_facility, handoff_history, expected)
                  IN  /\ Len(handoff_history) < MaxHandoffs
                      /\ handoff_history' = g.history
                      /\ current_facility' = expected
                      /\ last_handoff_altitude' = tel.altitude_msl
                      /\ ho_call' = [op |-> "update", expected |-> expected,
                                      ret |-> g.phraseology]
                      /\ UNCHANGED <<departure_airport, arrival_airport, notHandoff>>
             ELSE /\ ho_call' = [op |-> "update", expected |-> expected,
                                  ret |-> NoPhraseology]
                  /\ UNCHANGED <<handoffVars, notHandoff>>

\* HandoffManager.force_handoff_to
ForceHandoffTo(new_facility) ==
    LET g == GenerateHandoff(current_facility, handoff_history, new_facility)
    IN  /\ Len(handoff_history) < MaxHandoffs
        /\ handoff_history' = g.history
        /\ current_facility' = new_facility
        /\ ho_call' = [op |-> "force_handoff_to", expected |-> NoFacility,
                       ret |-> g.phraseology]
        /\ UNCHANGED <<departure_airport, arrival_airport, last_handoff_altitude,
                       notHandoff>>

\* HandoffManager.set_departure_airport
SetDepartureAirport(icao) ==
    /\ departure_airport' = icao
    /\ ho_call' = [op |-> "set_departure_airport", expected |-> NoFacility,
                   ret |-> NoPhraseology]
    /\ UNCHANGED <<current_facility, arrival_airport, last_handoff_altitude,
                   handoff_history, notHandoff>>

\* HandoffManager.set_arrival_airport
SetArrivalAirport(icao) ==
    /\ arrival_airport' = icao
    /\ ho_call' = [op |-> "set_arrival_airport", expected |-> NoFacility,
                   ret |-> NoPhraseology]
    /\ UNCHANGED <<current_facility, departure_airport, last_handoff_altitude,
                   handoff_history, notHandoff>>

\* HandoffManager.reset
HandoffReset ==
    /\ current_facility' = NoFacility
    /\ departure_airport' = "None"
    /\ arrival_airport' = "None"
    /\ last_handoff_altitude' = 0
    /\ handoff_history' = <<>>
    /\ ho_call' = [op |-> "reset", expected |-> NoFacility,
                   ret |-> NoPhraseology]
    /\ UNCHANGED notHandoff

InitHandoffSpec ==
    /\ clock = 0
    /\ InitPhase
    /\ InitDetectIdle
    /\ InitValidateIdle
    /\ InitStream
    /\ InitCache
    /\ InitHandoff
    /\ InitExpectedIdle
    /\ InitSquawk
    /\ InitParseIdle
    /\ InitFuzzyIdle
    /\ InitThreadsIdle
    /\ InitServices
    /\ InitReadbackIdle
    /\ InitStreamObs

NextHandoff ==
    \/ \E tel \in HandoffTelemetry, ph \in PhaseNames : HandoffUpdate(tel, ph)
    \/ \E f \in ForcedFacilities : ForceHandoffTo(f)
    \/ \E icao \in Icao : SetDepartureAirport(icao)
    \/ \E icao \in ArrivalIcao : SetArrivalAirport(icao)
    \/ HandoffReset

SpecHandoff == InitHandoffSpec /\ [][NextHandoff]_vars

\* the inputs of _determine_expected_facility
ExpectedInputs ==
    [phase : PhaseNames, altitude : HandoffAltitudes, on_ground : BOOLEAN,
     departure : {"None"} \cup Icao]

\* _determine_expected_facility applied to the input drawn
Expect ==
    /\ exp_out = NoResult
    /\ exp_out' = [returned |-> TRUE,
                   facility |-> DetermineExpectedFacility(exp_in.phase, exp_in.altitude,
                                                          exp_in.on_ground,
                                                          exp_in.departure)]
    /\ UNCHANGED <<exp_in, notExpected>>

InitExpectedSpec ==
    /\ clock = 0
    /\ InitPhase
    /\ InitDetectIdle
    /\ InitValidateIdle
    /\ InitStream
    /\ InitCache
    /\ InitHandoff
    /\ exp_in \in ExpectedInputs
    /\ exp_out = NoResult
    /\ InitSquawk
    /\ InitParseIdle
    /\ InitFuzzyIdle
    /\ InitThreadsIdle
    /\ InitServices
    /\ InitReadbackIdle
    /\ InitStreamObs

NextExpected == Expect

SpecExpected == InitExpectedSpec /\ [][NextExpected]_vars

\* the phraseology for a facility, word by word
ContactPhrase(f) == <<"Contact">> \o FacilityName(f) \o <<"on", f.frequency>>

\* whether update, asked for facility `expected`, has to change facility `current`
Differs(expected, current) ==
    expected # NoFacility /\ (current = NoFacility \/ expected.type # current.type)

\* C11: an update changes the current facility if and only if an expected facility
\* exists and either no facility is current or the expected type differs from the
\* current type; it then returns "Contact {name} on {frequency}" for the expected
\* facility; otherwise it returns none and leaves the current facility and the
\* history unchanged; after either, the same inputs no longer ask for a change.
C11_TransitionIffTypeDiffers ==
    [][ho_call'.op = "update" =>
          LET expected == ho_call'.expected
          IN  /\ (current_facility' # current_facility)
                    <=> Differs(expected, current_facility)
              /\ Differs(expected, current_facility) =>
                    /\ current_facility' = expected
                    /\ ho_call'.ret = ContactPhrase(expected)
              /\ ~Differs(expected, current_facility) =>
                    /\ ho_call'.ret = NoPhraseology
                    /\ handoff_history' = handoff_history
              /\ ~Differs(expected, current_facility')]_vars

\* an update has handed off from one facility to another
C11_Witness ==
    /\ ho_call.op = "update"
    /\ ho_call.ret # NoPhraseology
    /\ Len(handoff_history) = 2
    /\ handoff_history[2][1] # <<"frequency">>

\* the band rules, on the phase names given to update
GroundPhases == {<<"PARKED">>, <<"TAXI", "_", "OUT">>, <<"taxi", "_", "in">>}
DeparturePhases == {<<"Takeoff">>, <<"departure">>}
CruisePhases == {<<"CRUISE">>}
ArrivalPhases == {<<"descent">>, <<"APPROACH">>}

BandType(in) ==
    IF in.on_ground /\ in.phase \in GroundPhases THEN "GROUND"
    ELSE IF in.phase \in DeparturePhases /\ in.altitude < 3000 THEN "TOWER"
    ELSE IF in.phase \in DeparturePhases /\ in.altitude < 10000 THEN "DEPARTURE"
    ELSE IF in.phase \in CruisePhases \/ in.altitude > 18000 THEN "CENTER"
    ELSE IF in.phase \in ArrivalPhases /\ in.altitude > 10000 THEN "CENTER"
    ELSE IF in.phase \in ArrivalPhases THEN "APPROACH"
    ELSE "None"

\* C12: for every phase name, altitude and ground flag the expected facility is
\* the one of the band rules; from no facility (cruise, 20000 ft) gives Center and
\* a following (approach, 8000 ft) asks for Approach with a non-empty phraseology.
C12_BandRules ==
    exp_out # NoResult =>
        /\ exp_out.facility.type = BandType(exp_in)
        /\ LET center == DetermineExpectedFacility(<<"CRUISE">>, 20000, FALSE,
                                                   exp_in.departure)
               approach == DetermineExpectedFacility(<<"APPROACH">>, 8000, FALSE,
                                                     exp_in.departure)
           IN  /\ center.type = "CENTER"
               /\ NeedsHandoff(center, NoFacility)
               /\ approach.type = "APPROACH"
               /\ NeedsHandoff(approach, center)
               /\ GenerateHandoff(center, <<>>, approach).phraseology # <<>>

\* the tower band edge: a departure at 3,000 ft is expected with Departure
C12_Witness ==
    /\ exp_out # NoResult
    /\ exp_in.phase \in DeparturePhases
    /\ exp_in.altitude = 3000
    /\ exp_out.facility.type = "DEPARTURE"

\* C13: every change of the current facility, by update or by force_handoff_to,
\* appends exactly one pair (name of the previous facility, or "frequency" when
\* none; name of the new facility) and returns the phraseology; until reset the
\* history only grows at its end; the to-name of each entry is the from-name of
\* the next, and the to-name of the last is the name of the current facility.
C13_HistoryChain ==
    /\ [](/\ \A i \in 1..(Len(handoff_history) - 1) :
                handoff_history[i][2] = handoff_history[i + 1][1]
          /\ handoff_history # <<>> =>
                handoff_history[Len(handoff_history)][2] = FacilityName(current_facility))
    /\ [][/\ current_facility' # current_facility /\ ho_call'.op # "reset" =>
                /\ handoff_history' =
                      Append(handoff_history,
                             <<IF current_facility = NoFacility THEN <<"frequency">>
                               ELSE FacilityName(current_facility),
                               FacilityName(current_facility')>>)
                /\ ho_call'.ret = ContactPhrase(current_facility')
          /\ ho_call'.op # "reset" =>
                /\ Len(handoff_history') >= Len(handoff_history)
                /\ SubSeq(handoff_history', 1, Len(handoff_history)) = handoff_history]_vars

\* a forced handoff has followed an automatic one
C13_Witness ==
    /\ ho_call.op = "force_handoff_to"
    /\ Len(handoff_history) = 2
    /\ handoff_history[1][1] = <<"frequency">>
    /\ handoff_history[2][1] = <<"Center">>

----------------------------------------------------------------------------
(* SquawkHandler                                                           *)
(*                                                                         *)
(* A code is the sequence of its characters. "U+FF18" and "U+FF19" stand   *)
(* for the fullwidth digits eight and nine: str.isdigit() is true of them, *)
(* and they are neither in [0-7] nor equal to "8" or "9".                  *)
(***************************************************************************)

OctalDigits == {"0", "1", "2", "3", "4", "5", "6", "7"}
AsciiDigits == OctalDigits \cup {"8", "9"}
FullwidthDigits == {"U+FF18", "U+FF19"}

\* the codes given to update and to set_assigned_code
SquawkCodes ==
    {<<"7", "5", "0", "0">>, <<"7", "6", "0", "0">>, <<"7", "7", "0", "0">>,
     <<"1", "2", "0", "0">>, <<"0", "0", "0", "0">>, <<"4", "5", "2", "1">>,
     <<"4", "5", "9", "1">>, <<"7", "7">>, <<"4", "5", "2", "1", "7">>,
     <<"7", "x", "7", "0", "0">>, <<" ", "4", "5", "2", "1">>,
     <<"4", "5", " ", "2", "1">>, <<"a", "b", "c", "d">>,
     <<"U+FF18", "U+FF19", "0", "0">>, <<>>}

\* SquawkInfo
SquawkInfo(code, type, description, is_emergency, atc_response_required) ==
    [code |-> code, type |-> type, description |-> description,
     is_emergency |-> is_emergency, atc_response_required |-> atc_response_required]

\* EMERGENCY_CODES and SPECIAL_CODES: the keys, and the entry of a key
EmergencyKeys == {<<"7", "5", "0", "0">>, <<"7", "6", "0", "0">>, <<"7", "7", "0", "0">>}
SpecialKeys == {<<"1", "2", "0", "0">>, <<"0", "0", "0", "0">>}

EMERGENCY_CODES(code) ==
    CASE code = <<"7", "5", "0", "0">> -> SquawkInfo(code, "HIJACK", "Hijack", TRUE, TRUE)
      [] code = <<"7", "6", "0", "0">> ->
            SquawkInfo(code, "NORDO", "Radio failure - NORDO", TRUE, FALSE)
      [] code = <<"7", "7", "0", "0">> ->
            SquawkInfo(code, "EMERGENCY", "General emergency", TRUE, TRUE)

SPECIAL_CODES(code) ==
    CASE code = <<"1", "2", "0", "0">> -> SquawkInfo(code, "VFR", "VFR", FALSE, FALSE)
      [] code = <<"0", "0", "0", "0">> -> SquawkInfo(code, "STANDBY", "Standby", FALSE, FALSE)

\* SquawkHandler.is_emergency
IsEmergency == current_code \in EmergencyKeys

\* re.sub(r"[^0-7]", "", code)
OctalOnly(code) == SelectSeq(code, LAMBDA c : c \in OctalDigits)

\* str.zfill(width)
ZFill(digits, width) ==
    IF Len(digits) >= width THEN digits
    ELSE [i \in 1..(width - Len(digits)) |-> "0"] \o digits

\* a mutant: the last four digits are kept
NormalizeCodeKeepLast(code) ==
    LET z == ZFill(OctalOnly(code), 4) IN SubSeq(z, Len(z) - 3, Len(z))

\* SquawkHandler._normalize_code
NormalizeCode(code) == SubSeq(ZFill(OctalOnly(code), 4), 1, 4)

\* a mutant: a non-emergency code clears the field
LastEmergencyCleared(code, last) ==
    IF code \in EmergencyKeys THEN EMERGENCY_CODES(code) ELSE NoInfo

\* self._last_emergency after update has switched to `code`
LastEmergencyAfter(code, last) ==
    IF code \in EmergencyKeys THEN EMERGENCY_CODES(code) ELSE last

\* what update returns after it has switched to `code`
UpdateInfo(code) ==
    IF code \in EmergencyKeys THEN EMERGENCY_CODES(code)
    ELSE IF code \in SpecialKeys THEN SPECIAL_CODES(code)
    ELSE NoInfo

\* SquawkHandler.update
SquawkUpdate(arg) ==
    LET code == NormalizeCode(arg)
    IN  /\ IF code = current_code
           THEN /\ sq_call' = [op |-> "update", arg |-> arg, info |-> NoInfo]
                /\ UNCHANGED <<current_code, last_emergency>>
           ELSE /\ current_code' = code
                /\ last_emergency' = LastEmergencyAfter(code, last_emergency)
                /\ sq_call' = [op |-> "update", arg |-> arg, info |-> UpdateInfo(code)]
        /\ UNCHANGED <<assigned_code, assign_results, notSquawk>>

\* SquawkHandler.validate_code
ValidateCode(arg) ==
    LET code == Strip(arg)
    IN  IF Len(code) # 4
        THEN [valid |-> FALSE, error |-> <<"Squawk must be 4 digits, got", Len(code)>>]
        ELSE IF ~(\A i \in 1..Len(code) : code[i] \in AsciiDigits \cup FullwidthDigits)
        THEN [valid |-> FALSE, error |-> <<"Squawk must be numeric">>]
        ELSE IF \E i \in 1..Len(code) : code[i] \in {"8", "9"}
        THEN [valid |-> FALSE, error |-> <<"Squawk codes are octal (0-7 only)">>]
        ELSE [valid |-> TRUE, error |-> <<>>]

\* SquawkHandler.set_assigned_code: it returns None on both paths
SetAssignedCode(arg) ==
    /\ IF ValidateCode(arg).valid
       THEN /\ assigned_code' = NormalizeCode(arg)
            /\ assign_results' = [assign_results EXCEPT !.accepted = @ \cup {"None"}]
       ELSE /\ UNCHANGED assigned_code
            /\ assign_results' = [assign_results EXCEPT !.rejected = @ \cup {"None"}]
    /\ sq_call' = [op |-> "set_assigned_code", arg |-> arg, info |-> NoInfo]
    /\ UNCHANGED <<current_code, last_emergency, notSquawk>>

InitSquawkSpec ==
    /\ clock = 0
    /\ InitPhase
    /\ InitDetectIdle
    /\ InitValidateIdle
    /\ InitStream
    /\ InitCache
    /\ InitHandoff
    /\ InitExpectedIdle
    /\ InitSquawk
    /\ InitParseIdle
    /\ InitFuzzyIdle
    /\ InitThreadsIdle
    /\ InitServices
    /\ InitReadbackIdle
    /\ InitStreamObs

NextSquawk ==
    \/ \E arg \in SquawkCodes : SquawkUpdate(arg)
    \/ \E arg \in SquawkCodes : SetAssignedCode(arg)

SpecSquawk == InitSquawkSpec /\ [][NextSquawk]_vars

\* the code of the claim for an input: its octal digits, padded with zeros on the
\* left to four and cut after the fourth
Normalized(arg) ==
    LET d == OctalOnly(arg)
        pad == IF Len(d) < 4 THEN 4 - Len(d) ELSE 0
    IN  [i \in 1..4 |-> IF i <= pad THEN "0" ELSE d[i - pad]]

\* the table entry the claim has update return for a code
TableEntry(code) ==
    IF code \in EmergencyKeys THEN EMERGENCY_CODES(code)
    ELSE IF code \in SpecialKeys THEN SPECIAL_CODES(code)
    ELSE NoInfo

\* C14: update normalizes its input; if the normalized code is the current code it
\* returns nothing and changes no state; otherwise the current code becomes the
\* normalized code, the call returns the entry of an emergency or special code and
\* nothing for any other, and only an emergency code sets the last-emergency
\* field. The current code is always a string of exactly 4 octal digits.
C14_UpdateNormalizes ==
    /\ [](Len(current_code) = 4 /\ \A i \in 1..4 : current_code[i] \in OctalDigits)
    /\ [][sq_call'.op = "update" =>
            LET code == Normalized(sq_call'.arg)
            IN  IF code = current_code
                THEN /\ sq_call'.info = NoInfo
                     /\ UNCHANGED squawkVars
                ELSE /\ current_code' = code
                     /\ sq_call'.info = TableEntry(code)
                     /\ last_emergency' = IF code \in EmergencyKeys
                                          THEN EMERGENCY_CODES(code)
                                          ELSE last_emergency
                     /\ UNCHANGED assigned_code]_vars

\* an update with a non-octal character and more than four digits' worth of input
\* has entered an emergency code
C14_Witness ==
    /\ sq_call.op = "update"
    /\ sq_call.arg = <<"7", "x", "7", "0", "0">>
    /\ current_code = <<"7", "7", "0", "0">>
    /\ sq_call.info # NoInfo

\* C15: the last-emergency field is sticky: once set it stays set through updates
\* to non-emergency codes and through set_assigned_code, and it changes only when
\* an update switches the current code to an emergency code, to that code's info;
\* is_emergency is true exactly while the current code is an emergency code.
C15_StickyEmergency ==
    /\ [](IsEmergency <=> current_code \in {<<"7", "5", "0", "0">>, <<"7", "6", "0", "0">>,
                                            <<"7", "7", "0", "0">>})
    /\ [][/\ last_emergency # NoInfo => last_emergency' # NoInfo
          /\ last_emergency' # last_emergency =>
                /\ sq_call'.op = "update"
                /\ current_code' # current_code
                /\ current_code' \in EmergencyKeys
                /\ last_emergency' = EMERGENCY_CODES(current_code')
          /\ (sq_call'.op = "update" /\ current_code' # current_code
                /\ current_code' \notin EmergencyKeys) =>
                last_emergency' = last_emergency]_vars

\* after an emergency the code is back to VFR, a code has been assigned, and the
\* field still holds the emergency
C15_Witness ==
    /\ last_emergency # NoInfo
    /\ ~IsEmergency
    /\ assigned_code # NoCode
    /\ current_code = <<"1", "2", "0", "0">>

\* the valid codes of the claim: 4 characters, all digits, none 8 or 9
ValidCode(arg) == Len(arg) = 4 /\ \A i \in 1..4 : arg[i] \in OctalDigits

\* C16: set_assigned_code changes the assigned code if and only if the code is a
\* string of 4 characters that are all digits with none equal to 8 or 9; on invalid
\* input nothing changes, and on valid input only the assigned code changes, to
\* that code.
C16_AssignOnlyValid ==
    [][sq_call'.op = "set_assigned_code" =>
          /\ UNCHANGED <<current_code, last_emergency>>
          /\ ValidCode(sq_call'.arg) => assigned_code' = sq_call'.arg
          /\ ~ValidCode(sq_call'.arg) => assigned_code' = assigned_code]_vars

\* C17: the result of set_assigned_code distinguishes a successful assignment from
\* a rejected one: no value is returned both by an accepted and by a rejected call.
C17_ResultReportsOutcome ==
    assign_results.accepted \cap assign_results.rejected = {}

----------------------------------------------------------------------------
(* SquawkHandler.parse_squawk_from_atc                                     *)
(*                                                                         *)
(* A message is the sequence of its words, separated by single spaces; a   *)
(* hyphen is a word of its own. A match of a pattern starts at a word.     *)
(***************************************************************************)

\* the clauses the messages are made of
Clauses ==
    {<<>>,
     <<"radar", "contact">>,
     <<"Squawk", "VFR">>,
     <<"squawk", "ident">>,
     <<"squawk", "ident", "4512">>,
     <<"squawk", "4512">>,
     <<"squawk", "45123">>,
     <<"squawk", "451">>,
     <<"squawk", "four", "five", "one", "two">>,
     <<"Squawk", "seven", "-", "six", "-", "zero", "-", "oh">>,
     <<"squawk", "four", "five", "one">>,
     <<"squawk", "four", "five", "one", "two", "seven">>,
     <<"squawk", "eight", "one", "two", "four">>}

\* the messages given to parse_squawk_from_atc
Messages == {a \o b : a, b \in Clauses}

\* the digits of a word made of digits, <<>> for any other word
DigitsOf(w) ==
    CASE w = "4512" -> <<"4", "5", "1", "2">>
      [] w = "45123" -> <<"4", "5", "1", "2", "3">>
      [] w = "451" -> <<"4", "5", "1">>
      [] OTHER -> <<>>

\* word_to_digit
NumberWords == {"zero", "oh", "one", "two", "three", "four", "five", "six", "seven"}

WordToDigit(w) ==
    CASE w = "zero" -> "0"
      [] w = "oh" -> "0"
      [] w = "one" -> "1"
      [] w = "two" -> "2"
      [] w = "three" -> "3"
      [] w = "four" -> "4"
      [] w = "five" -> "5"
      [] w = "six" -> "6"
      [] w = "seven" -> "7"
      [] OTHER -> "0"

\* message_lower.replace("squawk ident", "")
RECURSIVE RemoveIdent(_)
RemoveIdent(text) ==
    IF text = <<>> THEN <<>>
    ELSE IF Len(text) >= 2 /\ text[1] = "squawk" /\ text[2] = "ident"
    THEN RemoveIdent(SubSeq(text, 3, Len(text)))
    ELSE <<Head(text)>> \o RemoveIdent(Tail(text))

\* r"squawk\s+(\d{4})" matched at word i: group 1, <<>> when it does not match
NumericAt(text, i) ==
    IF text[i] = "squawk" /\ i < Len(text) /\ Len(DigitsOf(text[i + 1])) >= 4
    THEN SubSeq(DigitsOf(text[i + 1]), 1, 4)
    ELSE <<>>

\* the rest of spoken_pattern from word j on, `acc` being the digits of the groups
\* matched so far: [\s-]* and a number word, until there are four
RECURSIVE SpokenRest(_, _, _)
SpokenRest(text, j, acc) ==
    IF Len(acc) = 4 THEN acc
    ELSE IF j > Len(text) THEN <<>>
    ELSE IF text[j] = "-" THEN SpokenRest(text, j + 1, acc)
    ELSE IF text[j] \in NumberWords
    THEN SpokenRest(text, j + 1, Append(acc, WordToDigit(text[j])))
    ELSE <<>>

\* spoken_pattern matched at word i: the digits of its groups, <<>> when it does
\* not match
SpokenAt(text, i) ==
    IF text[i] = "squawk" /\ i < Len(text) /\ text[i + 1] \in NumberWords
    THEN SpokenRest(text, i + 2, <<WordToDigit(text[i + 1])>>)
    ELSE <<>>

\* re.search of the numeric pattern: its leftmost match, <<>> when there is none
RECURSIVE SearchNumeric(_, _)
SearchNumeric(text, i) ==
    IF i > Len(text) THEN <<>>
    ELSE IF NumericAt(text, i) # <<>> THEN NumericAt(text, i)
    ELSE SearchNumeric(text, i + 1)

\* re.search of spoken_pattern: its leftmost match, <<>> when there is none
RECURSIVE SearchSpoken(_, _)
SearchSpoken(text, i) ==
    IF i > Len(text) THEN <<>>
    ELSE IF SpokenAt(text, i) # <<>> THEN SpokenAt(text, i)
    ELSE SearchSpoken(text, i + 1)

\* SquawkHandler.parse_squawk_from_atc: the code returned, NoCode for None
ParseSquawkFromAtc(atc_message) ==
    LET message_lower == Lower(atc_message)
    IN  IF Contains(message_lower, <<"squawk", "vfr">>)
        THEN <<"1", "2", "0", "0">>
        ELSE IF /\ Contains(message_lower, <<"squawk", "ident">>)
                /\ ~Contains(RemoveIdent(message_lower), <<"squawk">>)
        THEN NoCode
        ELSE IF SearchNumeric(message_lower, 1) # <<>>
        THEN SearchNumeric(message_lower, 1)
        ELSE IF SearchSpoken(message_lower, 1) # <<>>
        THEN SearchSpoken(message_lower, 1)
        ELSE NoCode

\* parse_squawk_from_atc applied to the message drawn
Parse ==
    /\ parse_out = NoResult
    /\ parse_out' = [returned |-> TRUE, code |-> ParseSquawkFromAtc(parse_in)]
    /\ UNCHANGED <<parse_in, notParse>>

InitParseSpec ==
    /\ clock = 0
    /\ InitPhase
    /\ InitDetectIdle
    /\ InitValidateIdle
    /\ InitStream
    /\ InitCache
    /\ InitHandoff
    /\ InitExpectedIdle
    /\ InitSquawk
    /\ parse_in \in Messages
    /\ parse_out = NoResult
    /\ InitFuzzyIdle
    /\ InitThreadsIdle
    /\ InitServices
    /\ InitReadbackIdle
    /\ InitStreamObs

NextParse == Parse

SpecParse == InitParseSpec /\ [][NextParse]_vars

\* the number words that follow one another from word j on, hyphens apart
RECURSIVE SpokenRun(_, _)
SpokenRun(text, j) ==
    IF j > Len(text) THEN <<>>
    ELSE IF text[j] = "-" /\ j < Len(text) /\ text[j + 1] \in NumberWords \cup {"-"}
    THEN SpokenRun(text, j + 1)
    ELSE IF text[j] \in NumberWords THEN <<text[j]>> \o SpokenRun(text, j + 1)
    ELSE <<>>

\* the rules of the claim, in their order, on the lower-cased message
RuleVfr(text) == \E i \in 1..(Len(text) - 1) : text[i] = "squawk" /\ text[i + 1] = "vfr"

RuleIdentOnly(text) ==
    /\ \E i \in 1..Len(text) : text[i] = "squawk"
    /\ \A i \in 1..Len(text) :
          text[i] = "squawk" => (i < Len(text) /\ text[i + 1] = "ident")

RuleDigits(text) ==
    {i \in 1..(Len(text) - 1) : text[i] = "squawk" /\ Len(DigitsOf(text[i + 1])) >= 4}

RuleSpoken(text) ==
    {i \in 1..(Len(text) - 1) :
        /\ text[i] = "squawk"
        /\ text[i + 1] \in NumberWords
        /\ Len(SpokenRun(text, i + 1)) = 4}

Least(S) == CHOOSE i \in S : \A j \in S : i <= j

ClaimedCode(text) ==
    IF RuleVfr(text) THEN <<"1", "2", "0", "0">>
    ELSE IF RuleIdentOnly(text) THEN NoCode
    ELSE IF RuleDigits(text) # {}
    THEN SubSeq(DigitsOf(text[Least(RuleDigits(text)) + 1]), 1, 4)
    ELSE IF RuleSpoken(text) # {}
    THEN [k \in 1..4 |-> WordToDigit(SpokenRun(text, Least(RuleSpoken(text)) + 1)[k])]
    ELSE NoCode

\* C18: parse_squawk_from_atc applies its rules in a fixed precedence: "squawk VFR"
\* gives "1200" first; a message whose only use of "squawk" is "squawk ident" gives
\* no code; otherwise four digits after "squawk" give that code; otherwise exactly
\* four spoken number words after "squawk" give their digits; otherwise no code.
\* It writes no handler state.
C18_ParsePrecedence ==
    /\ parse_out # NoResult => parse_out.code = ClaimedCode(Lower(parse_in))
    /\ current_code = <<"1", "2", "0", "0">>
    /\ last_emergency = NoInfo
    /\ assigned_code = NoCode

\* the items update_context enqueues for a context: one for each intent the table
\* lists for the phase, in table order
ItemsFor(phase, airport) ==
    [i \in 1..Len(PHASE_INTENTS(phase)) |->
        [intent_key |-> PHASE_INTENTS(phase)[i][1],
         prompt |-> BuildPrompt(PHASE_INTENTS(phase)[i][2], airport, Runway, Callsign,
                                Frequency),
         phase |-> phase]]

\* the queue after contexts ctxs[1], ..., ctxs[n] have been entered one after another
RECURSIVE Enqueued(_, _)
Enqueued(ctxs, n) ==
    IF n = 0 THEN <<>>
    ELSE Enqueued(ctxs, n - 1) \o ItemsFor(ctxs[n][1], ctxs[n][2])

IsSuffix(q, all) ==
    Len(q) <= Len(all) /\ q = SubSeq(all, Len(all) - Len(q) + 1, Len(all))

\* C19: an update_context whose fields give the stored fingerprint changes nothing;
\* one whose fingerprint differs removes every entry from the cache, installs the
\* new fingerprint and enqueues exactly one item for each intent the phase table
\* lists for the new phase, in table order. So between calls the invalidations
\* count the changes of context, each to a different context than the one before,
\* and the queue holds their items in order, less what the worker has popped.
C19_UpdateContextEffect ==
    /\ [](updater.pc = "idle" =>
            \E ctxs \in [1..stats.invalidations -> CachePhases \X Airports] :
                /\ \A n \in 1..(stats.invalidations - 1) : ctxs[n] # ctxs[n + 1]
                /\ current_context_hash =
                      IF stats.invalidations = 0 THEN NoHash
                      ELSE ContextHash(ctxs[stats.invalidations][1],
                                       ctxs[stats.invalidations][2],
                                       Runway, Callsign, Frequency)
                /\ IsSuffix(generation_queue, Enqueued(ctxs, stats.invalidations))
                /\ worker.pc = "none" =>
                      generation_queue = Enqueued(ctxs, stats.invalidations))
    /\ [][/\ stats'.invalidations # stats.invalidations =>
                /\ stats'.invalidations = stats.invalidations + 1
                /\ cache' = <<>>
          /\ current_context_hash' # current_context_hash =>
                stats.invalidations > 0]_vars

\* a second change of context has emptied a cache that held an entry, and its items
\* are queued
C19_Witness ==
    /\ updater.pc = "idle"
    /\ stats.invalidations = 2
    /\ stats.generations > 0
    /\ stats.hits + stats.misses = 0
    /\ cache = <<>>
    /\ generation_queue # <<>>

\* C20: get(intent) returns the stored text if and only if an entry for the intent
\* exists, its age is at most the TTL and its fingerprint is the live one; it then
\* adds one to that entry's hit counter and to the global hit counter; in every
\* other case it returns none and adds one to the global miss counter. Every get
\* adds one to exactly one of the two counters.
C20_GetHitOrMiss ==
    [][\A k \in GetIntents :
          Get(k) =>
              LET found == {i \in 1..Len(cache) : cache[i].intent_key = k}
                  usable == {i \in found :
                                /\ clock - cache[i].generated_at <= ttl_seconds
                                /\ cache[i].context_hash = current_context_hash}
              IN  IF usable # {}
                  THEN /\ ServedBy(k) # NoEntry
                       /\ \A i \in usable :
                             /\ ServedBy(k).response_text = cache[i].response_text
                             /\ cache'[i].hit_count = cache[i].hit_count + 1
                       /\ stats'.hits = stats.hits + 1
                       /\ stats'.misses = stats.misses
                  ELSE /\ ServedBy(k) = NoEntry
                       /\ stats'.misses = stats.misses + 1
                       /\ stats'.hits = stats.hits]_vars

\* a get has served an entry whose age had reached the TTL
C20_Witness ==
    /\ stats.hits = 1
    /\ clock = ttl_seconds
    /\ \E i \in 1..Len(cache) :
          /\ cache[i].hit_count = 1
          /\ cache[i].generated_at = 0

\* the intent keys of a cache, and the entry of a cache for a key it holds
KeysOf(c) == {c[i].intent_key : i \in 1..Len(c)}
EntryOf(c, k) == c[CHOOSE i \in 1..Len(c) : c[i].intent_key = k]

\* C21: after every store completed by the background worker the cache holds at
\* most max_cache_size entries, and when a store pushes it over the limit the
\* entries evicted are exactly as many as exceed the limit and are those with the
\* smallest generated_at, whatever their hit counts; the others are kept as they
\* were.
C21_StoreTrimsOldest ==
    /\ [](Len(cache) <= max_cache_size)
    /\ [][Store =>
            LET key == worker.item.intent_key
                before == KeysOf(cache) \cup {key}
                evicted == before \ KeysOf(cache')
                Created(k) == IF k = key THEN clock ELSE EntryOf(cache, k).generated_at
            IN  /\ KeysOf(cache') \subseteq before
                /\ Cardinality(KeysOf(cache')) = Len(cache')
                /\ Cardinality(evicted) =
                      IF Cardinality(before) > max_cache_size
                      THEN Cardinality(before) - max_cache_size
                      ELSE 0
                /\ \A e \in evicted : \A k \in KeysOf(cache') : Created(e) <= Created(k)
                /\ \A k \in KeysOf(cache') \ {key} :
                      EntryOf(cache', k) = EntryOf(cache, k)]_vars

\* a store has evicted the entry that had been hit and kept the one never hit
C21_Witness ==
    /\ stats.invalidations = 1
    /\ stats.generations = 2
    /\ stats.hits = 1
    /\ Len(cache) = max_cache_size
    /\ \A i \in 1..Len(cache) : cache[i].hit_count = 0

----------------------------------------------------------------------------
(* SpeculativeCache.fuzzy_match                                            *)
(*                                                                         *)
(* A pilot message and a keyword are sequences of pieces of text; a piece  *)
(* is a run of characters no keyword starts or ends inside, so that `kw in *)
(* message` is the occurrence of the keyword's pieces one after another.   *)
(* One step is one iteration of the loop that calls get.                   *)
(***************************************************************************)

\* keywords_map, in the order of the dict literal
KeywordsMap ==
    << <<"request_taxi", << <<"taxi">>, <<"clear", "ance">>, <<"ground">> >> >>,
       <<"ready_for_departure", << <<"ready">>, <<"departure">>, <<"take", "off">> >> >>,
       <<"hold_short_readback",
         << <<"hold", " ", "short">>, <<"hold", "ing", " ", "short">> >> >>,
       <<"request_flight_following",
         << <<"flight", " ", "following">>, <<"vfr">>, <<"advisories">> >> >>,
       <<"position_report", << <<"position">>, <<"over">>, <<"report", "ing">> >> >>,
       <<"airport_in_sight",
         << <<"airport", " ", "in", " ", "sight">>, <<"field", " ", "in", " ", "sight">> >> >>,
       <<"clear_of_runway",
         << <<"clear">>, <<"runway">>, <<"off", " ", "the", " ", "runway">> >> >>,
       <<"radio_check",
         << <<"radio", " ", "check">>,
            <<"how", " ", "do", " ", "you", " ", "read">> >> >> >>

\* the pilot messages fuzzy_match is called with
PilotMessages ==
    {<<"Ready", " ", "for", " ", "departure">>,
     <<"HOLD", "ING", " ", "SHORT", ",", " ", "ready">>,
     <<"hold", " ", "short">>,
     <<"Taxi", "way", " ", "Clear">>,
     <<"good", " ", "day">>,
     <<>>}

\* the context the cache is in when fuzzy_match is called, and the one before it
FuzzyPhase == "taxi_out"
FuzzyAirport == "KSMF"

\* the entry the worker stored for the i-th intent of the phase under a context
FuzzyEntry(i, airport) ==
    LET prompt == BuildPrompt(PHASE_INTENTS(FuzzyPhase)[i][2], airport, Runway, Callsign,
                              Frequency)
    IN  [intent_key |-> PHASE_INTENTS(FuzzyPhase)[i][1],
         prompt_template |-> prompt,
         response_text |-> [reply_to |-> prompt],
         flight_phase |-> FuzzyPhase,
         context_hash |-> ContextHash(FuzzyPhase, airport, Runway, Callsign, Frequency),
         generated_at |-> 0,
         hit_count |-> 0]

\* the caches fuzzy_match can find: at most max_cache_size entries, one for an intent,
\* each stored under the live context or under the one before it
FuzzyCaches ==
    LET entries == {FuzzyEntry(i, a) : i \in 1..Len(PHASE_INTENTS(FuzzyPhase)),
                                       a \in Airports}
    IN  {c \in UNION {[1..n -> entries] : n \in 0..max_cache_size} :
            \A i, j \in 1..Len(c) : c[i].intent_key = c[j].intent_key => i = j}

\* a mutant: the message is searched as the pilot said it
MessageUnchanged(pilot_message) == pilot_message

\* message_lower = pilot_message.lower()
MessageLower(pilot_message) == Lower(pilot_message)

\* any(kw in message_lower for kw in keywords)
AnyKeyword(keywords, message_lower) ==
    \E n \in 1..Len(keywords) : Contains(message_lower, keywords[n])

\* the next item of keywords_map, from the i-th on, with a keyword in the message;
\* 0 when the loop ends
NextMatch(message_lower, i) ==
    IF \E j \in i..Len(KeywordsMap) : AnyKeyword(KeywordsMap[j][2], message_lower)
    THEN CHOOSE j \in i..Len(KeywordsMap) :
            /\ AnyKeyword(KeywordsMap[j][2], message_lower)
            /\ \A h \in i..(j - 1) : ~AnyKeyword(KeywordsMap[h][2], message_lower)
    ELSE 0

\* fuzzy_match up to the loop
FuzzyMatch(pilot_message) ==
    /\ fuzzy.pc = "idle"
    /\ fuzzy' = [pc |-> "scan", msg |-> pilot_message,
                 lower |-> MessageLower(pilot_message), i |-> 1, ret |-> NoMatch]
    /\ UNCHANGED <<clock, cacheAll, notFuzzy>>

\* the loop up to and including its next call of get, or to its end
FuzzyStep ==
    /\ fuzzy.pc = "scan"
    /\ LET n == NextMatch(fuzzy.lower, fuzzy.i)
       IN  IF n = 0
           THEN /\ fuzzy' = [fuzzy EXCEPT !.pc = "done", !.ret = NoMatch]
                /\ UNCHANGED <<cache, stats>>
           ELSE LET r == GetResult(cache, stats, KeywordsMap[n][1], clock,
                                   current_context_hash)
                IN  /\ cache' = r.cache
                    /\ stats' = r.stats
                    /\ fuzzy' = IF r.served # NoEntry
                                THEN [fuzzy EXCEPT
                                        !.pc = "done",
                                        !.ret = [intent_key |-> KeywordsMap[n][1],
                                                 response |-> r.served.response_text]]
                                ELSE [fuzzy EXCEPT !.i = n + 1]
    /\ UNCHANGED <<clock, current_context_hash, generation_queue, running, cacheThreads,
                   cacheObs, notFuzzy>>

InitFuzzySpec ==
    /\ clock = 0
    /\ InitPhase
    /\ InitDetectIdle
    /\ InitValidateIdle
    /\ InitStream
    /\ cache \in FuzzyCaches
    /\ stats = [hits |-> 0, misses |-> 0, generations |-> Len(cache), invalidations |-> 1]
    /\ current_context_hash =
          ContextHash(FuzzyPhase, FuzzyAirport, Runway, Callsign, Frequency)
    /\ generation_queue = <<>>
    /\ running = TRUE
    /\ worker = [pc |-> "loop", item |-> NoItem, response |-> NoResponse]
    /\ updater = [pc |-> "idle", phase |-> "None", airport |-> "None", todo |-> <<>>]
    /\ stored_live = {}
    /\ InitHandoff
    /\ InitExpectedIdle
    /\ InitSquawk
    /\ InitParseIdle
    /\ InitFuzzyIdle
    /\ InitThreadsIdle
    /\ InitServices
    /\ InitReadbackIdle
    /\ InitStreamObs

NextFuzzy ==
    \/ \E pilot_message \in PilotMessages : FuzzyMatch(pilot_message)
    \/ FuzzyStep
    \/ CacheTick

SpecFuzzy == InitFuzzySpec /\ [][NextFuzzy]_vars

\* a keyword of the j-th intent of the table occurs in the message, letter case apart
Occurs(j, message) ==
    \E n \in 1..Len(KeywordsMap[j][2]) :
        LET kw == KeywordsMap[j][2][n]
        IN  \E at \in 0..(Len(message) - Len(kw)) :
                \A h \in 1..Len(kw) : LowerWord(message[at + h]) = LowerWord(kw[h])

\* the intents of the table with a keyword in the message, by their position
Candidates(message) == {j \in 1..Len(KeywordsMap) : Occurs(j, message)}

\* C22: fuzzy_match returns (intent, text) for the first intent, in keyword-table
\* order, that has a keyword occurring case-insensitively in the pilot's text and
\* whose entry get serves when it is asked for it; it returns none when there is
\* no such intent. Every candidate before the one returned was asked for and
\* missed, a miss moves on to the next candidate, and the call always returns.
C22_FuzzyFirstServable ==
    /\ [](fuzzy.pc = "done" =>
            IF fuzzy.ret = NoMatch
            THEN /\ stats.hits = 0
                 /\ stats.misses = Cardinality(Candidates(fuzzy.msg))
            ELSE \E j \in Candidates(fuzzy.msg) :
                    /\ KeywordsMap[j][1] = fuzzy.ret.intent_key
                    /\ stats.hits = 1
                    /\ stats.misses =
                          Cardinality({c \in Candidates(fuzzy.msg) : c < j})
                    /\ \E e \in 1..Len(cache) :
                          /\ cache[e].intent_key = fuzzy.ret.intent_key
                          /\ cache[e].response_text = fuzzy.ret.response
                          /\ cache[e].hit_count = 1)
    /\ [][(fuzzy.pc = "scan" /\ fuzzy' # fuzzy) =>
            LET untried == {j \in Candidates(fuzzy.msg) :
                              Cardinality({c \in Candidates(fuzzy.msg) : c < j})
                                 >= stats.misses}
            IN  IF untried = {}
                THEN fuzzy'.pc = "done" /\ fuzzy'.ret = NoMatch
                ELSE LET j == CHOOSE j \in untried : \A c \in untried : j <= c
                         key == KeywordsMap[j][1]
                     IN  IF ServedBy(key) # NoEntry
                         THEN /\ fuzzy'.pc = "done"
                              /\ fuzzy'.ret = [intent_key |-> key,
                                               response |-> ServedBy(key).response_text]
                         ELSE /\ fuzzy'.pc = "scan"
                              /\ stats'.misses = stats.misses + 1
                              /\ stats'.hits = stats.hits]_vars
    /\ [](fuzzy.pc = "scan" => ENABLED FuzzyStep)

\* a message said in capitals has been matched to its second candidate, the first
\* one having missed
C22_Witness ==
    /\ fuzzy.pc = "done"
    /\ fuzzy.ret # NoMatch
    /\ stats.misses = 1
    /\ fuzzy.msg # Lower(fuzzy.msg)

----------------------------------------------------------------------------
(* SpeculativeCache at the grain of its lock and its threads               *)
(*                                                                         *)
(* start() creates a thread at every call, so the generation threads are a *)
(* family; self._lock is taken and released in separate steps; the calling *)
(* thread is one thread that calls start, stop, update_context and get one *)
(* after another. The clock stands still.                                  *)
(***************************************************************************)

\* the airport update_context is called with in this specification
ThreadAirports == {"KSMF"}

\* a thread that start() created and that has not left _generation_loop
Alive(t) == threads[t].pc \notin {"unborn", "exited"}

IdleCaller ==
    [pc |-> "idle", phase |-> "None", airport |-> "None", todo |-> <<>>, key |-> "None"]

\* SpeculativeCache.start: no test of a thread already running
TStart ==
    /\ caller.pc = "idle"
    /\ \E t \in 1..MaxThreads :
          /\ threads[t].pc = "unborn"
          /\ \A u \in 1..(t - 1) : threads[u].pc # "unborn"
          /\ threads' = [threads EXCEPT ![t].pc = "loop"]
          /\ generation_thread' = t
    /\ running' = TRUE
    /\ UNCHANGED <<cache, stats, current_context_hash, generation_queue, lock, caller,
                   notThreads>>

\* SpeculativeCache.stop up to the join
TStop ==
    /\ caller.pc = "idle"
    /\ running' = FALSE
    /\ caller' = IF generation_thread # 0 THEN [caller EXCEPT !.pc = "join"] ELSE caller
    /\ UNCHANGED <<cache, stats, current_context_hash, generation_queue, lock, threads,
                   generation_thread, notThreads>>

\* self._generation_thread.join(timeout=2.0): the thread has ended, or two seconds
\* have passed while it is inside generate_func
TJoin ==
    /\ caller.pc = "join"
    /\ threads[generation_thread].pc \in {"exited", "generate"}
    /\ caller' = IdleCaller
    /\ UNCHANGED <<cacheVars, lock, threads, generation_thread, notThreads>>

\* update_context up to the comparison of the hashes
TUpdateContext(phase, airport) ==
    /\ caller.pc = "idle"
    /\ LET new_hash == ContextHash(phase, airport, Runway, Callsign, Frequency)
       IN  IF new_hash # current_context_hash
           THEN caller' = [caller EXCEPT !.pc = "invalidate", !.phase = phase,
                                           !.airport = airport]
           ELSE UNCHANGED caller
    /\ UNCHANGED <<cacheVars, lock, threads, generation_thread, notThreads>>

\* with self._lock: entered by the calling thread in _invalidate_cache or in get
TCallerAcquire ==
    /\ caller.pc \in {"invalidate", "get"}
    /\ lock = Unlocked
    /\ lock' = Caller
    /\ caller' = [caller EXCEPT !.pc = IF caller.pc = "get" THEN "in_get"
                                       ELSE "in_invalidate"]
    /\ UNCHANGED <<cacheVars, threads, generation_thread, notThreads>>

\* the body of _invalidate_cache and the release of the lock
TInvalidate ==
    /\ caller.pc = "in_invalidate"
    /\ cache' = <<>>
    /\ stats' = [stats EXCEPT !.invalidations = @ + 1]
    /\ lock' = Unlocked
    /\ caller' = [caller EXCEPT !.pc = "install"]
    /\ UNCHANGED <<current_context_hash, generation_queue, running, threads,
                   generation_thread, notThreads>>

\* self._current_context_hash = new_hash
TInstall ==
    /\ caller.pc = "install"
    /\ current_context_hash' =
          ContextHash(caller.phase, caller.airport, Runway, Callsign, Frequency)
    /\ caller' = [caller EXCEPT !.pc = "queue", !.todo = PHASE_INTENTS(caller.phase)]
    /\ UNCHANGED <<cache, stats, generation_queue, running, lock, threads,
                   generation_thread, notThreads>>

\* a mutant: _queue_phase_generations queues the first intent of the phase only
TQueueFirstOnly ==
    /\ caller.pc = "queue"
    /\ LET intent == Head(caller.todo)
           prompt == BuildPrompt(intent[2], caller.airport, Runway, Callsign, Frequency)
       IN  generation_queue' =
               Append(generation_queue,
                      [intent_key |-> intent[1], prompt |-> prompt, phase |-> caller.phase])
    /\ caller' = IdleCaller
    /\ UNCHANGED <<cache, stats, current_context_hash, running, lock, threads,
                   generation_thread, notThreads>>

\* one iteration of the loop of _queue_phase_generations
TQueue ==
    /\ caller.pc = "queue"
    /\ LET intent == Head(caller.todo)
           prompt == BuildPrompt(intent[2], caller.airport, Runway, Callsign, Frequency)
       IN  generation_queue' =
               Append(generation_queue,
                      [intent_key |-> intent[1], prompt |-> prompt, phase |-> caller.phase])
    /\ caller' = IF Len(caller.todo) = 1 THEN IdleCaller
                 ELSE [caller EXCEPT !.todo = Tail(@)]
    /\ UNCHANGED <<cache, stats, current_context_hash, running, lock, threads,
                   generation_thread, notThreads>>

\* get(intent_key) called
TGet(intent_key) ==
    /\ caller.pc = "idle"
    /\ stats.hits + stats.misses < MaxGets
    /\ caller' = [caller EXCEPT !.pc = "get", !.key = intent_key]
    /\ UNCHANGED <<cacheVars, lock, threads, generation_thread, notThreads>>

\* the body of get and the release of the lock
TGetBody ==
    /\ caller.pc = "in_get"
    /\ LET r == GetResult(cache, stats, caller.key, clock, current_context_hash)
       IN  /\ cache' = r.cache
           /\ stats' = r.stats
    /\ lock' = Unlocked
    /\ caller' = IdleCaller
    /\ UNCHANGED <<current_context_hash, generation_queue, running, threads,
                   generation_thread, notThreads>>

\* while self._running: if self._generation_queue: ... else: time.sleep(0.5)
TLoop(t) ==
    /\ threads[t].pc = "loop"
    /\ threads' = IF ~running THEN [threads EXCEPT ![t].pc = "exited"]
                  ELSE IF generation_queue # <<>> THEN [threads EXCEPT ![t].pc = "pop"]
                  ELSE threads
    /\ UNCHANGED <<cacheVars, lock, generation_thread, caller, notThreads>>

\* a mutant: the item is popped and generated for inside the critical section
TPopLocked(t) ==
    /\ threads[t].pc = "pop"
    /\ lock = Unlocked
    /\ IF generation_queue = <<>>
       THEN /\ threads' = [threads EXCEPT ![t].pc = "loop"]
            /\ UNCHANGED <<generation_queue, lock>>
       ELSE /\ threads' = [threads EXCEPT ![t].pc = "generate",
                                          ![t].item = Head(generation_queue)]
            /\ generation_queue' = Tail(generation_queue)
            /\ lock' = t
    /\ UNCHANGED <<cache, stats, current_context_hash, running, generation_thread, caller,
                   notThreads>>

\* self._generation_queue.pop(0): an IndexError on an empty list is caught by the loop
TPop(t) ==
    /\ threads[t].pc = "pop"
    /\ IF generation_queue = <<>>
       THEN /\ threads' = [threads EXCEPT ![t].pc = "loop"]
            /\ UNCHANGED generation_queue
       ELSE /\ threads' = [threads EXCEPT ![t].pc = "generate",
                                          ![t].item = Head(generation_queue)]
            /\ generation_queue' = Tail(generation_queue)
    /\ UNCHANGED <<cache, stats, current_context_hash, running, lock, generation_thread,
                   caller, notThreads>>

\* response = self.generate_func(prompt): a text, an empty result, or an exception
\* (a timeout of the backend is one or the other)
TGenerate(t, outcome) ==
    /\ threads[t].pc = "generate"
    /\ threads' = IF outcome = "text"
                  THEN [threads EXCEPT ![t].pc = "acquire",
                                       ![t].response = [reply_to |-> threads[t].item.prompt]]
                  ELSE [threads EXCEPT ![t].pc = "failed"]
    /\ UNCHANGED <<cacheVars, lock, generation_thread, caller, notThreads>>

\* `if response:` not taken, or the except clause: back to the loop
TFailed(t) ==
    /\ threads[t].pc = "failed"
    /\ threads' = [threads EXCEPT ![t] = [pc |-> "loop", item |-> NoItem,
                                          response |-> NoResponse]]
    /\ UNCHANGED <<cacheVars, lock, generation_thread, caller, notThreads>>

\* with self._lock: entered by a generation thread
TAcquire(t) ==
    /\ threads[t].pc = "acquire"
    /\ lock = Unlocked
    /\ lock' = t
    /\ threads' = [threads EXCEPT ![t].pc = "store"]
    /\ UNCHANGED <<cacheVars, generation_thread, caller, notThreads>>

\* the critical section of _generate_and_cache and the release of the lock
TStore(t) ==
    /\ threads[t].pc = "store"
    /\ cache' = TrimCache(Put(cache,
                    [intent_key |-> threads[t].item.intent_key,
                     prompt_template |-> threads[t].item.prompt,
                     response_text |-> threads[t].response,
                     flight_phase |-> threads[t].item.phase,
                     context_hash |-> current_context_hash,
                     generated_at |-> clock,
                     hit_count |-> 0]))
    /\ stats' = [stats EXCEPT !.generations = @ + 1]
    /\ lock' = Unlocked
    /\ threads' = [threads EXCEPT ![t] = [pc |-> "loop", item |-> NoItem,
                                          response |-> NoResponse]]
    /\ UNCHANGED <<current_context_hash, generation_queue, running, generation_thread,
                   caller, notThreads>>

InitThreadsSpec ==
    /\ clock = 0
    /\ InitPhase
    /\ InitDetectIdle
    /\ InitValidateIdle
    /\ InitStream
    /\ InitCache
    /\ InitHandoff
    /\ InitExpectedIdle
    /\ InitSquawk
    /\ InitParseIdle
    /\ InitFuzzyIdle
    /\ InitThreadsIdle
    /\ InitServices
    /\ InitReadbackIdle
    /\ InitStreamObs

NextThreads ==
    \/ TStart
    \/ TStop
    \/ TJoin
    \/ \E phase \in CachePhases, airport \in ThreadAirports :
          TUpdateContext(phase, airport)
    \/ TCallerAcquire
    \/ TInvalidate
    \/ TInstall
    \/ TQueue
    \/ \E intent_key \in GetIntents : TGet(intent_key)
    \/ TGetBody
    \/ \E t \in 1..MaxThreads : TLoop(t)
    \/ \E t \in 1..MaxThreads : TPop(t)
    \/ \E t \in 1..MaxThreads, outcome \in {"text", "empty", "raise"} : TGenerate(t, outcome)
    \/ \E t \in 1..MaxThreads : TFailed(t)
    \/ \E t \in 1..MaxThreads : TAcquire(t)
    \/ \E t \in 1..MaxThreads : TStore(t)

SpecThreads == InitThreadsSpec /\ [][NextThreads]_vars

\* a generation thread that can take a step takes one, and generate_func returns
ThreadsFairness ==
    \A t \in 1..MaxThreads :
        /\ WF_vars(TLoop(t))
        /\ WF_vars(TPop(t))
        /\ WF_vars(\E outcome \in {"text", "empty", "raise"} : TGenerate(t, outcome))
        /\ WF_vars(TFailed(t))
        /\ WF_vars(TAcquire(t))
        /\ WF_vars(TStore(t))

SpecThreadsFair == SpecThreads /\ ThreadsFairness

\* C23: for every sequence of start() and stop() calls at most one background
\* worker executes the generation loop at any time, so at most one generation call
\* is in flight, and queued items are taken one at a time in FIFO order, each by
\* exactly one worker.
C23_SingleWorker ==
    /\ [](Cardinality({t \in 1..MaxThreads : Alive(t)}) <= 1)
    /\ [](Cardinality({t \in 1..MaxThreads : threads[t].pc = "generate"}) <= 1)
    /\ [][\A t \in 1..MaxThreads :
            (threads'[t].item # threads[t].item /\ threads'[t].item # NoItem) =>
                /\ generation_queue # <<>>
                /\ threads'[t].item = Head(generation_queue)
                /\ generation_queue' = Tail(generation_queue)
                /\ \A u \in 1..MaxThreads : u # t => threads'[u] = threads[u]]_vars

\* C24: a failed pre-generation (generate_func raises, times out or returns an
\* empty result) is a soft failure: it stores no entry, it never terminates the
\* worker, which goes back to its loop and the remaining items of the queue, and
\* the failed intent is attempted again later, unless the cache is stopped.
C24_SoftFailureRetried ==
    /\ [][\A t \in 1..MaxThreads :
            (threads[t].pc = "failed" /\ threads'[t] # threads[t]) =>
                /\ threads'[t].pc = "loop"
                /\ cache' = cache
                /\ stats' = stats]_vars
    /\ \A t \in 1..MaxThreads : (threads[t].pc = "failed") ~> (threads[t].pc = "loop")
    /\ \A k \in GetIntents :
          (\E t \in 1..MaxThreads :
               threads[t].pc = "failed" /\ threads[t].item.intent_key = k)
          ~> (\/ ~running
              \/ \E t \in 1..MaxThreads :
                    threads[t].pc = "generate" /\ threads[t].item.intent_key = k)

\* C25: generate_func is never invoked while the cache lock is held, and no code
\* path acquires the lock while already holding it: the lock is held only inside
\* the critical sections of the store, of get and of the invalidation, whose holder
\* can always go on to release it; so a get is delayed only by such a section,
\* never by a generation, and the lock never deadlocks.
C25_LockDiscipline ==
    /\ \A t \in 1..MaxThreads : threads[t].pc = "generate" => lock # t
    /\ \A t \in 1..MaxThreads : lock = t <=> threads[t].pc = "store"
    /\ lock = Caller <=> caller.pc \in {"in_get", "in_invalidate"}
    /\ lock = Caller => ENABLED (TGetBody \/ TInvalidate)
    /\ \A t \in 1..MaxThreads : lock = t => ENABLED TStore(t)
    /\ lock = Unlocked => (caller.pc \in {"get", "invalidate"} => ENABLED TCallerAcquire)

\* get is inside its critical section while a generation is in flight
C25_Witness ==
    /\ caller.pc = "in_get"
    /\ lock = Caller
    /\ \E t \in 1..MaxThreads : threads[t].pc = "generate"

----------------------------------------------------------------------------
(* Claims about generate_stream *)

\* a text without the whitespace before its first and after its last other character
Trimmed(buf) ==
    LET ink == {i \in 1..Len(buf) : buf[i] \notin Whitespace}
    IN  IF ink = {} THEN <<>>
        ELSE SubSeq(buf, CHOOSE i \in ink : \A j \in ink : i <= j,
                         CHOOSE i \in ink : \A j \in ink : i >= j)

\* the buffer is due for a chunk before the backend is done
Due(buf) ==
    \/ Len(buf) >= max_chunk_chars
    \/ /\ Len(buf) >= min_chunk_chars
       /\ \E i \in 1..Len(buf) : buf[i] \in {".", "!", "?", ",", ";", ":", "\n"}

\* the lines that carry a token and no completion signal
OpenLines == {line \in StreamLines : line.kind = "json" /\ ~line.done}

NonBlankReceived(yielded, buf) ==
    \/ \E i \in 1..Len(yielded) : yielded[i].text # <<>>
    \/ Trimmed(buf) # <<>>

\* C27: every stream that runs until the backend's done signal, having received at
\* least one non-blank token, ends with exactly one chunk marked is_final; that
\* chunk is the last one yielded and carries any residual buffer, even one shorter
\* than min_chunk_chars.
C27_EndsWithOneFinalChunk ==
    [][\A line \in StreamLines :
          (/\ Line(line)
           /\ ~stop_event
           /\ line.kind = "json"
           /\ line.done
           /\ NonBlankReceived(chunks, buffer \o line.token)) =>
              /\ chunks' # <<>>
              /\ chunks'[Len(chunks')].is_final
              /\ Cardinality({i \in 1..Len(chunks') : chunks'[i].is_final}) = 1
              /\ Trimmed(buffer \o line.token) # <<>> =>
                    chunks'[Len(chunks')].text = Trimmed(buffer \o line.token)]_vars

\* C28: when the backend connection is refused or times out, generate_stream
\* yields exactly one chunk, with empty text and is_final true, and then ends (the
\* consumer finishes the request normally, nothing is raised); a stream that fails
\* after it began yields that one chunk after those it had yielded; and a
\* malformed line is skipped: the stream goes on as it was.
C28_FailureYieldsEmptyFinal ==
    /\ [][\A outcome \in {"timeout", "refused", "error"} :
            Post(outcome) =>
                /\ chunks' = << [text |-> <<>>, is_final |-> TRUE] >>
                /\ llm_pc' = "suspended"
                /\ ctl_pc' = "finishing"]_vars
    /\ [][LineError =>
                /\ chunks' = Append(chunks, [text |-> <<>>, is_final |-> TRUE])
                /\ llm_pc' = "suspended"
                /\ ctl_pc' = "finishing"]_vars
    /\ [][\A line \in StreamLines :
            (Line(line) /\ ~stop_event /\ line.kind = "malformed") =>
                /\ llm_pc' = "lines"
                /\ ctl_pc' = "streaming"
                /\ chunks' = chunks
                /\ buffer' = buffer]_vars
    /\ [][(ctl_pc = "finishing" /\ ctl_pc' # "finishing") => ctl_ret' = TRUE]_vars

\* the request was refused and the stream is its one empty final chunk
C28_Witness ==
    /\ lines_read = 0
    /\ llm_pc = "suspended"
    /\ chunks = << [text |-> <<>>, is_final |-> TRUE] >>

\* C29: after stop() is called while a stream is active, the stream terminates at
\* the next received network line: it yields no chunk built from that line or
\* from the buffer, speaks nothing more, yields no error chunk and raises nothing.
C29_StopEndsStreamSilently ==
    [][(llm_pc = "lines" /\ stop_event /\ lines_read' = lines_read + 1) =>
          /\ llm_pc' = "closed"
          /\ ctl_pc' = "finishing"
          /\ chunks' = chunks
          /\ spoken' = spoken
          /\ full_response' = full_response]_vars

\* a stream that had yielded a chunk and held a buffer was stopped and has ended
C29_Witness ==
    /\ stop_event
    /\ llm_pc = "closed"
    /\ chunks # <<>>
    /\ \A i \in 1..Len(chunks) : ~chunks[i].is_final
    /\ buffer # <<>>

----------------------------------------------------------------------------
(* Claims about the squawk check of validate_atc_response *)

\* 'squawk' followed by a 4-digit code with a digit 8 or 9 occurs in the response
HasNonOctalSquawk(response) ==
    \E i \in 1..Len(response.atoms) : response.atoms[i] \in {"squawk 8521", "Squawk 4591"}

\* an issue about a squawk code
IsSquawkIssue(issue) == Contains(issue, <<"Invalid", "squawk">>)

----------------------------------------------------------------------------
(* Claims about the numeric checks of validate_atc_response *)

\* the positions of the response's atoms that lie in a set of atoms
AtomsIn(response, set) == {i \in 1..Len(response.atoms) : response.atoms[i] \in set}

\* the positions of the issues that contain the words kw
IssuesWith(result, kw) == {i \in 1..Len(result.issues) : Contains(result.issues[i], kw)}

\* C31: every numeric claim in the text that violates the operating envelope adds
\* a critical issue: an altitude above 60,000 ft or a flight level above FL600
\* adds an altitude issue, and every frequency-shaped number outside the civil
\* VHF band 118.000-136.975 adds an 'Invalid frequency' issue.
C31_EnvelopeViolationsFlagged ==
    val_out # NoResult =>
        /\ Cardinality(IssuesWith(val_out, <<"Unrealistic", "altitude:">>))
              = Cardinality(AtomsIn(val_in, {"70000 feet"}))
        /\ Cardinality(IssuesWith(val_out, <<"Unrealistic", "flight", "level:">>))
              = Cardinality(AtomsIn(val_in, {"FL700"}))
        /\ Cardinality(IssuesWith(val_out, <<"Invalid", "frequency:">>))
              = Cardinality(AtomsIn(val_in, {"140.500"}))

----------------------------------------------------------------------------
(* Claims about the leakage scan of validate_atc_response *)

\* the leakage patterns that match the raw text
MatchingPatterns(response) ==
    {k \in 1..Len(SUSPICIOUS_PATTERNS) : Search(SUSPICIOUS_PATTERNS[k], response.atoms)}

\* some leakage pattern matches the text
Leaks(atoms) == \E k \in 1..Len(SUSPICIOUS_PATTERNS) : Search(SUSPICIOUS_PATTERNS[k], atoms)

\* C32: for every input, the cleaned text returned by validate contains no
\* substring that matches a leakage pattern, and each leakage pattern that
\* matched the text contributed one critical issue.
C32_LeakageStripped ==
    val_out # NoResult =>
        /\ ~Leaks(val_out.cleaned_response.atoms)
        /\ Cardinality(IssuesWith(val_out, <<"Contains">>))
              = Cardinality(MatchingPatterns(val_in))
        /\ \A k \in MatchingPatterns(val_in) :
              \E i \in 1..Len(val_out.issues) :
                 val_out.issues[i] = <<"Contains">> \o SUSPICIOUS_PATTERNS[k].description

----------------------------------------------------------------------------
(* Claims about the warning scans of validate_atc_response *)

\* the atom matches a prohibited-phraseology or an out-of-scope pattern
IsWarningAtom(a) ==
    \/ \E k \in 1..Len(PROHIBITED_PHRASES) : Matches(PROHIBITED_PHRASES[k], a)
    \/ \E k \in 1..Len(IFR_SCOPE_VIOLATIONS) : Matches(IFR_SCOPE_VIOLATIONS[k], a)

\* the same text without its prohibited and out-of-scope matches
WithoutWarnings(response) ==
    [quote |-> response.quote,
     atoms |-> SelectSeq(response.atoms, LAMBDA a : ~IsWarningAtom(a))]

\* the warnings that the matches of a table in the text call for
WarningsDue(table, prefix, response) ==
    {<<prefix>> \o table[k].description :
        k \in {j \in 1..Len(table) : Search(table[j], response.atoms)}}

\* the match adds its warning, the cleaned text keeps the matched atoms, and no
\* issue is added to those of the text without the matches
WarningFrame ==
    LET bare == validate_atc_response(WithoutWarnings(val_in))
    IN  /\ SeqRange(val_out.warnings)
              = WarningsDue(PROHIBITED_PHRASES, "Prohibited:", val_in)
                   \cup WarningsDue(IFR_SCOPE_VIOLATIONS, "SCOPE:", val_in)
        /\ bare.warnings = <<>>
        /\ SelectSeq(val_out.cleaned_response.atoms, IsWarningAtom)
              = SelectSeq(val_in.atoms, IsWarningAtom)
        /\ SeqRange(val_out.issues) \subseteq SeqRange(bare.issues)

----------------------------------------------------------------------------
(* ModelWarmupService and AmbientChatterService                            *)
(*                                                                         *)
(* Each service has one worker thread that waits an interval in sleeps of  *)
(* a tenth of a second, reads _paused, and unless paused sends a heartbeat *)
(* (warm-up) or plays a transmission (chatter). start() is called while no *)
(* worker of the service is alive.                                         *)
(***************************************************************************)

\* interval_seconds * 10 of the warm-up service, in sleeps
WarmupSleeps == 2

\* min_interval * 10 and max_interval * 10 of the chatter service, in sleeps
MinChatterSleeps == 1
MaxChatterSleeps == 2

\* the most actions a service completes
MaxActions == 2

\* the intervals the worker can draw
Intervals(s) ==
    IF s = "warmup" THEN {WarmupSleeps} ELSE MinChatterSleeps..MaxChatterSleeps

\* start(): a new worker thread at the top of its loop
SvcStart(s) ==
    /\ services[s].pc \in {"unborn", "exited"}
    /\ ~services[s].running
    /\ services' = [services EXCEPT ![s].running = TRUE, ![s].stop_event = FALSE,
                                    ![s].pc = "loop"]
    /\ UNCHANGED notServices

\* stop(): the join, which times out, is not waited for
SvcStop(s) ==
    /\ services[s].running
    /\ services' = [services EXCEPT ![s].running = FALSE,
                                    ![s].stop_event = (s = "warmup")]
    /\ UNCHANGED notServices

\* pause()
SvcPause(s) ==
    /\ ~services[s].paused
    /\ services' = [services EXCEPT ![s].paused = TRUE]
    /\ UNCHANGED notServices

\* resume()
SvcResume(s) ==
    /\ services[s].paused
    /\ services' = [services EXCEPT ![s].paused = FALSE]
    /\ UNCHANGED notServices

\* `while self._running:` and the choice of the interval
SvcLoop(s) ==
    /\ services[s].pc = "loop"
    /\ IF services[s].running
       THEN \E n \in Intervals(s) :
               services' = [services EXCEPT ![s].pc = "wait", ![s].left = n]
       ELSE services' = [services EXCEPT ![s].pc = "exited"]
    /\ UNCHANGED notServices

\* one round of the wait loop: return when stopped, else sleep a tenth of a second
SvcSleep(s) ==
    /\ services[s].pc = "wait"
    /\ services[s].left > 0
    /\ IF (s = "warmup" /\ services[s].stop_event) \/ (s = "chatter" /\ ~services[s].running)
       THEN services' = [services EXCEPT ![s].pc = "exited", ![s].left = 0]
       ELSE services' = [services EXCEPT ![s].left = @ - 1]
    /\ UNCHANGED notServices

\* a mutant: the worker does not look at _paused
SvcCheckUnpaused(s) ==
    /\ services[s].pc = "wait"
    /\ services[s].left = 0
    /\ services[s].count < MaxActions
    /\ services' = [services EXCEPT ![s].pc = "send", ![s].last = "started"]
    /\ UNCHANGED notServices

\* `if self._paused: continue`, at the end of the wait
SvcCheck(s) ==
    /\ services[s].pc = "wait"
    /\ services[s].left = 0
    /\ services[s].count < MaxActions
    /\ IF services[s].paused
       THEN services' = [services EXCEPT ![s].pc = "loop", ![s].last = "skipped"]
       ELSE services' = [services EXCEPT ![s].pc = "send", ![s].last = "started"]
    /\ UNCHANGED notServices

\* the call of _send_heartbeat() or _play_random_transmission(): the action is in flight
SvcSend(s) ==
    /\ services[s].pc = "send"
    /\ services' = [services EXCEPT ![s].pc = "act"]
    /\ UNCHANGED notServices

\* the action returns: a heartbeat with a latency, or a transmission that was spoken,
\* counts; a failed one is logged
SvcDone(s, success) ==
    /\ services[s].pc = "act"
    /\ services' = [services EXCEPT ![s].pc = "loop",
                                    ![s].count = IF success THEN @ + 1 ELSE @]
    /\ UNCHANGED notServices

InitServicesSpec ==
    /\ clock = 0
    /\ InitPhase
    /\ InitDetectIdle
    /\ InitValidateIdle
    /\ InitStream
    /\ InitCache
    /\ InitHandoff
    /\ InitExpectedIdle
    /\ InitSquawk
    /\ InitParseIdle
    /\ InitFuzzyIdle
    /\ InitThreadsIdle
    /\ InitServices
    /\ InitReadbackIdle
    /\ InitStreamObs

NextServices ==
    \E s \in Services :
        \/ SvcStart(s)
        \/ SvcStop(s)
        \/ SvcPause(s)
        \/ SvcResume(s)
        \/ SvcLoop(s)
        \/ SvcSleep(s)
        \/ SvcCheck(s)
        \/ SvcSend(s)
        \/ \E success \in BOOLEAN : SvcDone(s, success)

SpecServices == InitServicesSpec /\ [][NextServices]_vars

\* each worker thread keeps being scheduled, and a request or a playback returns
ServicesFairness ==
    \A s \in Services :
        /\ WF_vars(SvcLoop(s))
        /\ WF_vars(SvcSleep(s))
        /\ WF_vars(SvcCheck(s))
        /\ WF_vars(SvcSend(s))
        /\ WF_vars(\E success \in BOOLEAN : SvcDone(s, success))

SpecServicesFair == SpecServices /\ ServicesFairness

\* C34: for the warm-up and ambient-chatter workers, a pause() that happens before
\* the worker's check at the end of its wait interval suppresses the next
\* scheduled action (no heartbeat or transmission is started on a check that
\* finds the service paused), a pause() issued while an action is in flight does
\* not abort that action, and after resume() actions start again at the end of a
\* later interval.
C34_PauseSkipsNextAction ==
    /\ [][\A s \in Services :
             /\ (services[s].pc = "wait" /\ services'[s].pc # "wait" /\ services[s].paused
                 /\ services'[s].pc # "exited")
                   => services'[s].pc = "loop" /\ services'[s].count = services[s].count
             /\ (services'[s].pc = "send" /\ services[s].pc # "send")
                   => ~services[s].paused /\ services[s].pc = "wait"
             /\ services'[s].pc = "act" => services[s].pc \in {"send", "act"}
             /\ services[s].pc = "act" => services'[s].pc \in {"act", "loop"}]_vars
    /\ \A s \in Services :
          /\ (services[s].pc = "act") ~> (services[s].pc = "loop")
          /\ (services[s].running /\ ~services[s].paused /\ services[s].pc = "loop"
                 /\ services[s].last = "skipped" /\ services[s].count < MaxActions)
                ~> (services[s].pc = "act" \/ services[s].paused \/ ~services[s].running)

\* the warm-up worker skipped a heartbeat on finding the service paused, and the
\* chatter service was paused while a transmission is in flight
C34_Witness ==
    /\ services["warmup"].paused
    /\ services["warmup"].last = "skipped"
    /\ services["warmup"].pc = "wait"
    /\ services["chatter"].paused
    /\ services["chatter"].pc = "act"
    /\ services["chatter"].count = 1

----------------------------------------------------------------------------
(* check_readback_required                                                 *)
(*                                                                         *)
(* An instruction is a sequence of clauses joined by ", ". A clause is a   *)
(* stretch of text of one of the kinds below; runway, freq and code are    *)
(* the runway designator, the frequency and the transponder code written   *)
(* in it ("None" when it has none).                                        *)
(***************************************************************************)

\* the longest instruction, in clauses
MaxClauses == 3

\* "hold short" / "hold short of runway 10", "cross runway 10",
\* "runway 28, cleared for takeoff", "cleared to land runway 28L",
\* "cleared for the option", "contact tower on 118.3", "contact ground point niner",
\* "monitor ATIS on 127.85", "squawk 4521", "traffic 2 o'clock, 3 miles",
\* "radar contact", "tower frequency is 118.3"
InstructionClauses ==
    { [kind |-> "hold short",    runway |-> "None", freq |-> "None",   code |-> "None"],
      [kind |-> "hold short",    runway |-> "10",   freq |-> "None",   code |-> "None"],
      [kind |-> "cross",         runway |-> "10",   freq |-> "None",   code |-> "None"],
      [kind |-> "cleared",       runway |-> "28",   freq |-> "None",   code |-> "None"],
      [kind |-> "cleared",       runway |-> "28L",  freq |-> "None",   code |-> "None"],
      [kind |-> "cleared",       runway |-> "None", freq |-> "None",   code |-> "None"],
      [kind |-> "contact",       runway |-> "None", freq |-> "118.3",  code |-> "None"],
      [kind |-> "contact",       runway |-> "None", freq |-> "None",   code |-> "None"],
      [kind |-> "monitor",       runway |-> "None", freq |-> "127.85", code |-> "None"],
      [kind |-> "squawk",        runway |-> "None", freq |-> "None",   code |-> "4521"],
      [kind |-> "traffic",       runway |-> "None", freq |-> "None",   code |-> "None"],
      [kind |-> "radar contact", runway |-> "None", freq |-> "None",   code |-> "None"],
      [kind |-> "information",   runway |-> "None", freq |-> "118.3",  code |-> "None"] }

Instructions == UNION {[1..n -> InstructionClauses] : n \in 0..MaxClauses}

\* re.search(r"runway (\d+[LRC]?)", atc_instruction).group(1), when there is a match
FirstRunway(instruction) ==
    instruction[Least({i \in 1..Len(instruction) : instruction[i].runway # "None"})].runway

check_readback_required(instruction) ==
    LET all == 1..Len(instruction)
        hold == {i \in all : instruction[i].kind = "hold short"}
        hold_runway == {i \in hold : instruction[i].runway # "None"}
        cleared == {i \in all : instruction[i].kind = "cleared"}
        runways == {i \in all : instruction[i].runway # "None"}
        \* the words "contact" and "monitor", and the frequencies written after one
        words == {i \in all : instruction[i].kind \in {"contact", "monitor", "radar contact"}}
        freqs == {i \in all : instruction[i].freq # "None" /\ \E w \in words : w <= i}
        squawks == {i \in all : instruction[i].code # "None"}
    IN  (IF hold # {}
         THEN IF hold_runway # {}
              THEN << [element |-> "Hold short runway",
                       value |-> instruction[Least(hold_runway)].runway] >>
              ELSE << [element |-> "Hold short instruction", value |-> ""] >>
         ELSE <<>>)
        \o (IF cleared # {} /\ runways # {}
            THEN << [element |-> "Runway", value |-> FirstRunway(instruction)] >>
            ELSE <<>>)
        \o (IF freqs # {}
            THEN << [element |-> "Frequency", value |-> instruction[Least(freqs)].freq] >>
            ELSE <<>>)
        \o (IF squawks # {}
            THEN << [element |-> "Squawk", value |-> instruction[Least(squawks)].code] >>
            ELSE <<>>)

CheckReadback ==
    /\ rb_out = NoReadback
    /\ rb_out' = [returned |-> TRUE, list |-> check_readback_required(rb_in)]
    /\ UNCHANGED <<rb_in, notReadback>>

InitReadbackSpec ==
    /\ clock = 0
    /\ InitPhase
    /\ InitDetectIdle
    /\ InitValidateIdle
    /\ InitStream
    /\ InitCache
    /\ InitHandoff
    /\ InitExpectedIdle
    /\ InitSquawk
    /\ InitParseIdle
    /\ InitFuzzyIdle
    /\ InitThreadsIdle
    /\ InitServices
    /\ rb_in \in Instructions
    /\ rb_out = NoReadback
    /\ InitStreamObs

NextReadback == CheckReadback

SpecReadback == InitReadbackSpec /\ [][NextReadback]_vars

\* the readback elements of the mandatory items present in the instruction
ItemsPresent(instruction) ==
    LET all == 1..Len(instruction)
        named == \E i \in all : instruction[i].kind = "hold short"
                                   /\ instruction[i].runway # "None"
    IN  {[element |-> "Hold short runway", value |-> instruction[i].runway] :
            i \in {j \in all : instruction[j].kind = "hold short"
                                  /\ instruction[j].runway # "None"}}
        \cup {[element |-> "Hold short instruction", value |-> ""] :
                i \in {j \in all : instruction[j].kind = "hold short" /\ ~named}}
        \cup {[element |-> "Runway", value |-> instruction[i].runway] :
                i \in {j \in all : instruction[j].kind = "cleared"
                                      /\ instruction[j].runway # "None"}}
        \cup {[element |-> "Frequency", value |-> instruction[i].freq] :
                i \in {j \in all : instruction[j].kind \in {"contact", "monitor"}
                                      /\ instruction[j].freq # "None"}}
        \cup {[element |-> "Squawk", value |-> instruction[i].code] :
                i \in {j \in all : instruction[j].code # "None"}}

\* the kinds of element: the two hold-short elements are one kind
ElementKind(e) == IF e.element = "Hold short instruction" THEN "Hold short runway" ELSE e.element

\* C35: check_readback_required returns one readback element for each kind of
\* mandatory item present in the instruction -- a hold-short instruction (naming
\* the runway when one is given), the runway of a takeoff/landing/option
\* clearance, the frequency of a contact/monitor instruction, a 4-digit squawk
\* code -- and an empty list for an instruction containing none of them.
C35_ReadbackItems ==
    rb_out # NoReadback =>
        LET list == rb_out.list
            items == ItemsPresent(rb_in)
        IN  /\ \A i \in 1..Len(list) : list[i] \in items
            /\ \A i, j \in 1..Len(list) :
                  ElementKind(list[i]) = ElementKind(list[j]) => i = j
            /\ {ElementKind(list[i]) : i \in 1..Len(list)} = {ElementKind(e) : e \in items}
            /\ items = {} => list = <<>>

----------------------------------------------------------------------------
(* Claims about the flight of FlightPhaseTracker *)

\* the step is a call of update() with connected telemetry
IsConnectedUpdate ==
    /\ clock' = clock
    /\ ph_call'.op = "update"
    /\ ph_call'.detected # NoPhase

\* C36: once a connected update has reported the aircraft off the ground, no
\* phase change commits Parked until reset() is called: was_airborne is cleared
\* only by reset() (or by a commit of Parked, which needs it to be false), Parked
\* is detected only while was_airborne is false, and after a flight the ground
\* phases detected are TaxiIn (below taxi speed) and Landing.
C36_NoParkedAfterFlight ==
    /\ \A tel \in GroundTelemetry :
          /\ DetectPhase(tel, TRUE) \in {"TAXI_IN", "LANDING"}
          /\ tel.ias < taxi_speed_max => DetectPhase(tel, TRUE) = "TAXI_IN"
    /\ [][/\ (was_airborne /\ ~was_airborne') => ph_call'.op = "reset" /\ clock' = clock
          /\ (IsConnectedUpdate /\ ph_call'.detected = "PARKED")
                => ~was_airborne /\ ~was_airborne'
          /\ (IsConnectedUpdate /\ was_airborne)
                => ph_call'.detected \notin {"PARKED", "TAXI_OUT", "TAKEOFF"}
          /\ (was_airborne /\ current_phase' = "PARKED") => current_phase = "PARKED"
          /\ (current_phase' = "PARKED" /\ current_phase # "PARKED")
                => ~was_airborne /\ ~was_airborne']_vars

\* after a flight a stop on the ground was committed as TaxiIn
C36_Witness ==
    /\ was_airborne
    /\ current_phase = "TAXI_IN"
    /\ commit_ias = 0
    /\ ph_call.op = "update"
    /\ ph_call.detected = "TAXI_IN"


\* C37: in every reachable state of FlightPhaseTracker there is exactly one
\* current phase and at most one pending phase; the pending phase, when present,
\* differs from the current phase and is never Unknown; and the current phase is
\* Unknown only before the first commit or after reset(): a commit never makes
\* it Unknown and only reset() brings it back to Unknown.
C37_OneCurrentOnePending ==
    /\ [](/\ current_phase \in FlightPhase
          /\ pending_phase \in (FlightPhase \cup {NoPhase})
          /\ pending_phase # NoPhase
                => pending_phase # current_phase /\ pending_phase # "UNKNOWN"
          /\ last_commit_time = -1 => current_phase = "UNKNOWN")
    /\ [][/\ last_commit_time' # last_commit_time => current_phase' # "UNKNOWN"
          /\ (current_phase' = "UNKNOWN" /\ current_phase # "UNKNOWN")
                => ph_call'.op = "reset" /\ clock' = clock
          /\ (current_phase = "UNKNOWN" /\ current_phase' # "UNKNOWN")
                => last_commit_time' = clock /\ IsConnectedUpdate]_vars

\* a phase is pending after a reset() that followed a commit
C37_Witness ==
    /\ current_phase = "UNKNOWN"
    /\ last_commit_time >= 0
    /\ pending_phase \notin {NoPhase, "UNKNOWN"}
    /\ ph_call.op = "update"

----------------------------------------------------------------------------
(* Claims about the tokens of a stream *)

\* the texts are, in order, consecutive stretches of the received characters, each
\* stripped of its leading and trailing whitespace, and nothing but whitespace is left
RECURSIVE Carries(_, _)
Carries(texts, received) ==
    IF texts = <<>> THEN Strip(received) = <<>>
    ELSE \E k \in 0..Len(received) :
            /\ Strip(SubSeq(received, 1, k)) = texts[1]
            /\ Carries(Tail(texts), SubSeq(received, k + 1, Len(received)))

\* the texts of the chunks yielded so far
ChunkTexts == [i \in 1..Len(chunks) |-> chunks[i].text]

\* C38: on a stream that runs to the backend's done signal with no malformed line
\* and no cancellation, the texts of the yielded chunks, concatenated in order,
\* contain every received token exactly once and in arrival order, up to the
\* leading and trailing whitespace stripped from each chunk, and no chunk is
\* yielded after the final one.
C38_TokensCarriedOnce ==
    /\ \A i \in 1..(Len(chunks) - 1) : ~chunks[i].is_final
    /\ (stream_obs.done /\ ~stream_obs.malformed /\ ~stream_obs.stopped)
          => Carries(ChunkTexts, stream_obs.received)

\* a stream ran to done in two chunks, and whitespace was stripped from a chunk
C38_Witness ==
    /\ stream_obs.done
    /\ ~stream_obs.malformed
    /\ ~stream_obs.stopped
    /\ Len(chunks) = 2
    /\ chunks[1].text # <<>>
    /\ chunks[2].text # <<>>
    /\ chunks[2].is_final
    /\ Len(stream_obs.received) > Len(chunks[1].text) + Len(chunks[2].text)


\* C39: a stop() request is never lost: once stop() has been called on a request
\* in progress -- also before the generator has taken its first step -- no
\* further text is yielded or spoken, and the next line read ends the stream.
C39_StopNeverLost ==
    [][(stream_obs.stopped /\ ctl_pc = "streaming") =>
          /\ spoken' = spoken
          /\ full_response' = full_response
          /\ \A i \in (Len(chunks) + 1)..Len(chunks') : chunks'[i].text = <<>>
          /\ lines_read' # lines_read => llm_pc' = "closed"]_vars

----------------------------------------------------------------------------
(* Pre-generation across context changes                                   *)
(*                                                                         *)
(* The threads of SpecThreads, with update_context called for either       *)
(* airport, so that an installed context finds the items of the one before *)
(* it in the queue. start() is called once, so there is one generation     *)
(* thread; a call the calling thread has begun runs to its end.            *)
(***************************************************************************)

\* the one call of start()
PStart ==
    /\ generation_thread = 0
    /\ TStart

\* update_context, while the model has context changes left
PUpdateContext(phase, airport) ==
    /\ stats.invalidations < MaxContextChanges
    /\ TUpdateContext(phase, airport)

NextPregen ==
    \/ PStart
    \/ TStop
    \/ TJoin
    \/ \E phase \in CachePhases, airport \in Airports : PUpdateContext(phase, airport)
    \/ TCallerAcquire
    \/ TInvalidate
    \/ TInstall
    \/ TQueue
    \/ \E intent_key \in GetIntents : TGet(intent_key)
    \/ TGetBody
    \/ \E t \in 1..MaxThreads : TLoop(t)
    \/ \E t \in 1..MaxThreads : TPop(t)
    \/ \E t \in 1..MaxThreads, outcome \in {"text", "empty", "raise"} : TGenerate(t, outcome)
    \/ \E t \in 1..MaxThreads : TFailed(t)
    \/ \E t \in 1..MaxThreads : TAcquire(t)
    \/ \E t \in 1..MaxThreads : TStore(t)

SpecPregen == InitThreadsSpec /\ [][NextPregen]_vars

\* the calling thread goes on inside update_context and get, whose critical
\* sections end
CallerFairness ==
    /\ WF_vars(TCallerAcquire)
    /\ WF_vars(TInvalidate)
    /\ WF_vars(TInstall)
    /\ WF_vars(TQueue)
    /\ WF_vars(TGetBody)

SpecPregenFair == SpecPregen /\ ThreadsFairness /\ CallerFairness

\* update_context(phase, airport) has just installed its context and is about to
\* queue the intents of the phase
Installed(phase, airport) ==
    /\ caller.pc = "queue"
    /\ caller.phase = phase
    /\ caller.airport = airport
    /\ caller.todo = PHASE_INTENTS(phase)

\* the context of (phase, airport) is the live one, the cache runs with a
\* generation thread in its loop, and no generation has failed
Settled(phase, airport) ==
    /\ current_context_hash = ContextHash(phase, airport, Runway, Callsign, Frequency)
    /\ running
    /\ \E t \in 1..MaxThreads : Alive(t)
    /\ \A t \in 1..MaxThreads : threads[t].pc # "failed"

\* the item queued for the i-th intent of (phase, airport) is stored, and get
\* would return it
Pregenerated(phase, airport, i) ==
    LET intent == PHASE_INTENTS(phase)[i]
        pos == Find(cache, intent[1])
    IN  /\ pos > 0
        /\ cache[pos].prompt_template =
               BuildPrompt(intent[2], airport, Runway, Callsign, Frequency)
        /\ cache[pos].response_text = [reply_to |-> cache[pos].prompt_template]
        /\ HashMatches(cache[pos].context_hash, current_context_hash)
        /\ clock - cache[pos].generated_at <= ttl_seconds

\* C40: if the cache worker is running, the generation function always returns a
\* non-empty response and update_context is not called again after it installed
\* context C, then under fair scheduling every intent listed for C's phase is
\* eventually dequeued and stored, so that get returns a response for it (within
\* the TTL); the items left in the queue from earlier contexts only delay this.
C40_PregenerationCompletes ==
    \A phase \in CachePhases, airport \in Airports :
        \A i \in 1..Len(PHASE_INTENTS(phase)) :
            []((Installed(phase, airport) /\ []Settled(phase, airport))
                   => <>Pregenerated(phase, airport, i))

\* the second context's item is served while an item of the first context, queued
\* before it, was stored under the second context's hash next to it
C40_Witness ==
    /\ stats.invalidations = 2
    /\ caller.pc = "idle"
    /\ \E airport \in Airports :
          /\ Settled("takeoff", airport)
          /\ Pregenerated("takeoff", airport, Len(PHASE_INTENTS("takeoff")))
    /\ stats.generations > Len(PHASE_INTENTS("takeoff"))

====
